---------------------------- MODULE Spec2Model ----------------------------
(***************************************************************************)
(* Model of the gologger package: configuration validation, the           *)
(* environment loader and the life cycle of the process-wide logger       *)
(* (InitGlobal, InitFromEnv, InitWithDefaults, Get, TryGet,               *)
(* ReplaceGlobal) guarded by a sync.RWMutex.                              *)
(*                                                                         *)
(* Go strings are sequences of one-character strings, so that TrimSpace,  *)
(* ToUpper and ToLower are computed and not assumed.  An error value is a *)
(* record: chain is the sequence of sentinels errors.Is meets when it     *)
(* unwraps the error, text the pieces of its message.  fmt.Errorf keeps   *)
(* the chain of a %w operand and only the text of a %v operand.           *)
(***************************************************************************)
EXTENDS Naturals, Integers, Sequences, FiniteSets, TLC

\* ------------------------------------------------------------------ bounds

\* Number of goroutines that call into the package.
NThreads == 2

\* Total number of public calls made during one run.
MaxCalls == 3

Threads == 1..NThreads

\* ----------------------------------------------------------------- strings

LowerChars == <<"a","b","c","d","e","f","g","h","i","j","k","l","m",
                "n","o","p","q","r","s","t","u","v","w","x","y","z">>
UpperChars == <<"A","B","C","D","E","F","G","H","I","J","K","L","M",
                "N","O","P","Q","R","S","T","U","V","W","X","Y","Z">>

ToUpperChar(c) ==
    IF \E i \in 1..Len(LowerChars) : LowerChars[i] = c
    THEN UpperChars[CHOOSE i \in 1..Len(LowerChars) : LowerChars[i] = c]
    ELSE c

ToLowerChar(c) ==
    IF \E i \in 1..Len(UpperChars) : UpperChars[i] = c
    THEN LowerChars[CHOOSE i \in 1..Len(UpperChars) : UpperChars[i] = c]
    ELSE c

\* strings.ToUpper / strings.ToLower
ToUpper(s) == [i \in 1..Len(s) |-> ToUpperChar(s[i])]
ToLower(s) == [i \in 1..Len(s) |-> ToLowerChar(s[i])]

\* The characters strings.TrimSpace removes.
Whitespace == {" ", "\t", "\n", "\r"}

RECURSIVE TrimLeft(_)
TrimLeft(s) ==
    IF s = <<>> THEN <<>>
    ELSE IF Head(s) \in Whitespace THEN TrimLeft(Tail(s)) ELSE s

RECURSIVE TrimRight(_)
TrimRight(s) ==
    IF s = <<>> THEN <<>>
    ELSE IF s[Len(s)] \in Whitespace THEN TrimRight(SubSeq(s, 1, Len(s) - 1)) ELSE s

\* strings.TrimSpace
TrimSpace(s) == TrimRight(TrimLeft(s))

\* ------------------------------------------------------------------ errors

NilErr == [chain |-> <<>>, text |-> <<>>]

\* errors.New(name): a sentinel
Sentinel(name) == [chain |-> <<name>>, text |-> <<name>>]

ErrNotInitialized     == Sentinel("ErrNotInitialized")
ErrAlreadyInitialized == Sentinel("ErrAlreadyInitialized")
ErrInvalidConfig      == Sentinel("ErrInvalidConfig")
ErrInvalidLogLevel    == Sentinel("ErrInvalidLogLevel")
ErrInvalidEnvironment == Sentinel("ErrInvalidEnvironment")
ErrMissingServiceName == Sentinel("ErrMissingServiceName")
ErrSyncFailed         == Sentinel("ErrSyncFailed")

\* the sentinels of package config
ErrMissingRequiredEnvVar == Sentinel("config.ErrMissingRequiredEnvVar")
ErrInvalidValue          == Sentinel("config.ErrInvalidValue")

\* fmt.Errorf("%w: %v", outer, inner): wraps outer, prints inner
ErrorfWrapThenPrint(outer, inner) ==
    [chain |-> outer.chain, text |-> outer.text \o inner.text]

\* fmt.Errorf("%w: <words>", outer): wraps outer, appends literal words
ErrorfWrapWords(outer, words) ==
    [chain |-> outer.chain, text |-> outer.text \o words]

\* fmt.Errorf("<prefix>: %w", inner): a new error that unwraps to inner
ErrorfPrefixWrap(prefix, inner) ==
    [chain |-> inner.chain, text |-> <<prefix>> \o inner.text]

\* errors.Is(err, target) for a sentinel target
ErrorsIs(err, target) ==
    \E i \in 1..Len(err.chain) : err.chain[i] = target.chain[1]

\* ----------------------------------------------------------- configuration

LogLevelDebug == <<"D","E","B","U","G">>
LogLevelInfo  == <<"I","N","F","O">>
LogLevelWarn  == <<"W","A","R","N">>
LogLevelError == <<"E","R","R","O","R">>

EnvDevelopment == <<"d","e","v","e","l","o","p","m","e","n","t">>
EnvProduction  == <<"p","r","o","d","u","c","t","i","o","n">>

LoggerConfig(level, environment, name) ==
    [Level |-> level, Environment |-> environment, ServiceName |-> name]

\* Mutant of LogLevelValidate: the level is upper-cased before it is compared.
LogLevelValidate_CaseInsensitive(l) ==
    IF ToUpper(l) \in {LogLevelDebug, LogLevelInfo, LogLevelWarn, LogLevelError}
    THEN NilErr
    ELSE ErrorfWrapWords(ErrInvalidValue, <<"log level">>)

\* config.LogLevel.Validate
LogLevelValidate(l) ==
    IF l \in {LogLevelDebug, LogLevelInfo, LogLevelWarn, LogLevelError}
    THEN NilErr
    ELSE ErrorfWrapWords(ErrInvalidValue, <<"log level">>)

\* Mutant of EnvironmentValidate: the environment is lower-cased before it
\* is compared.
EnvironmentValidate_CaseInsensitive(e) ==
    IF ToLower(e) \in {EnvDevelopment, EnvProduction}
    THEN NilErr
    ELSE ErrorfWrapWords(ErrInvalidValue, <<"environment">>)

\* config.Environment.Validate
EnvironmentValidate(e) ==
    IF e \in {EnvDevelopment, EnvProduction}
    THEN NilErr
    ELSE ErrorfWrapWords(ErrInvalidValue, <<"environment">>)

\* config.LoggerConfig.Validate
LoggerConfigValidate(c) ==
    IF LogLevelValidate(c.Level) # NilErr THEN LogLevelValidate(c.Level)
    ELSE IF EnvironmentValidate(c.Environment) # NilErr
         THEN EnvironmentValidate(c.Environment)
    ELSE IF TrimSpace(c.ServiceName) = <<>>
         THEN ErrorfWrapWords(ErrInvalidValue, <<"service name">>)
    ELSE NilErr

\* Mutant of validateConfig: the environment is checked before the level.
validateConfig_EnvironmentFirst(cfg) ==
    IF EnvironmentValidate(cfg.Environment) # NilErr
    THEN ErrorfWrapThenPrint(ErrInvalidEnvironment,
                             EnvironmentValidate(cfg.Environment))
    ELSE IF LogLevelValidate(cfg.Level) # NilErr
         THEN ErrorfWrapThenPrint(ErrInvalidLogLevel, LogLevelValidate(cfg.Level))
    ELSE IF TrimSpace(cfg.ServiceName) = <<>>
         THEN ErrMissingServiceName
    ELSE NilErr

\* logger.validateConfig
validateConfig(cfg) ==
    IF LogLevelValidate(cfg.Level) # NilErr
    THEN ErrorfWrapThenPrint(ErrInvalidLogLevel, LogLevelValidate(cfg.Level))
    ELSE IF EnvironmentValidate(cfg.Environment) # NilErr
         THEN ErrorfWrapThenPrint(ErrInvalidEnvironment,
                                  EnvironmentValidate(cfg.Environment))
    ELSE IF TrimSpace(cfg.ServiceName) = <<>>
         THEN ErrMissingServiceName
    ELSE NilErr

\* ------------------------------------------------------------ construction

\* zapcore levels
ZapDebugLevel == 0 - 1
ZapInfoLevel  == 0
ZapWarnLevel  == 1
ZapErrorLevel == 2

ZeroLogger == [level |-> ZapInfoLevel, encoder |-> "none", fields |-> <<>>]

\* logger.buildLogger: the zap logger built for cfg, or an error
buildLogger(cfg) ==
    IF cfg.Level \notin {LogLevelDebug, LogLevelInfo, LogLevelWarn, LogLevelError}
    THEN [err |-> ErrorfWrapWords(ErrInvalidLogLevel, <<"level">>),
          logger |-> ZeroLogger]
    ELSE [err |-> NilErr,
          logger |->
            [level |-> CASE cfg.Level = LogLevelDebug -> ZapDebugLevel
                         [] cfg.Level = LogLevelInfo  -> ZapInfoLevel
                         [] cfg.Level = LogLevelWarn  -> ZapWarnLevel
                         [] OTHER                     -> ZapErrorLevel,
             encoder |-> IF cfg.Environment = EnvProduction
                         THEN "json" ELSE "console",
             fields |-> << [key |-> "service", value |-> cfg.ServiceName] >>]]

\* a logger the caller built itself (Logger.WithCore: zap.New(core, ...))
ExternalLogger == [level |-> ZapInfoLevel, encoder |-> "custom", fields |-> <<>>]

\* -------------------------------------------------------------- environment

EnvKeys == {"LOG_LEVEL", "APP_ENV", "APP_NAME"}

Unset == [set |-> FALSE, val |-> <<>>]
SetTo(v) == [set |-> TRUE, val |-> v]

\* os.Getenv: the empty string for an unset variable
Getenv(e, k) == IF e[k].set THEN e[k].val ELSE <<>>

ZeroConfig == LoggerConfig(<<>>, <<>>, <<>>)

\* godotenv.Load on the .env file f: variables already present in the
\* process environment are kept, the others are set from the file
godotenvLoad(e, f) ==
    CASE f.state = "absent"     -> [err |-> "not exist", env |-> e]
      [] f.state = "unreadable" -> [err |-> "other", env |-> e]
      [] OTHER ->
            [err |-> "nil",
             env |-> [k \in EnvKeys |->
                        IF ~e[k].set /\ f.vars[k].set THEN f.vars[k] ELSE e[k]]]

\* Mutant of loadEnvFile: APP_ENV is compared with "production" as written.
loadEnvFile_ExactProduction(e, f) ==
    IF Getenv(e, "APP_ENV") = EnvProduction
    THEN [err |-> NilErr, env |-> e, consulted |-> FALSE]
    ELSE IF godotenvLoad(e, f).err = "other"
         THEN [err |-> [chain |-> <<>>, text |-> <<"error loading .env file">>],
               env |-> e, consulted |-> TRUE]
         ELSE [err |-> NilErr, env |-> godotenvLoad(e, f).env, consulted |-> TRUE]

\* Mutant of loadEnvFile: a .env file that does not exist is an error.
loadEnvFile_MissingFileIsError(e, f) ==
    IF ToLower(Getenv(e, "APP_ENV")) = EnvProduction
    THEN [err |-> NilErr, env |-> e, consulted |-> FALSE]
    ELSE IF godotenvLoad(e, f).err # "nil"
         THEN [err |-> [chain |-> <<>>, text |-> <<"error loading .env file">>],
               env |-> e, consulted |-> TRUE]
         ELSE [err |-> NilErr, env |-> godotenvLoad(e, f).env, consulted |-> TRUE]

\* Mutant of loadEnvFile: every error of godotenv.Load is taken for a
\* missing file.
loadEnvFile_IgnoresLoadError(e, f) ==
    IF ToLower(Getenv(e, "APP_ENV")) = EnvProduction
    THEN [err |-> NilErr, env |-> e, consulted |-> FALSE]
    ELSE [err |-> NilErr, env |-> godotenvLoad(e, f).env, consulted |-> TRUE]

\* config.loadEnvFile
loadEnvFile(e, f) ==
    IF ToLower(Getenv(e, "APP_ENV")) = EnvProduction
    THEN [err |-> NilErr, env |-> e, consulted |-> FALSE]
    ELSE IF godotenvLoad(e, f).err = "other"
         THEN [err |-> [chain |-> <<>>, text |-> <<"error loading .env file">>],
               env |-> e, consulted |-> TRUE]
         ELSE [err |-> NilErr, env |-> godotenvLoad(e, f).env, consulted |-> TRUE]

\* Mutant of loadLoggerConfig: APP_NAME is trimmed before it is stored.
loadLoggerConfig_TrimsName(e) ==
    IF Getenv(e, "LOG_LEVEL") = <<>>
    THEN [err |-> ErrorfWrapWords(ErrMissingRequiredEnvVar, <<"LOG_LEVEL">>),
          cfg |-> ZeroConfig]
    ELSE IF Getenv(e, "APP_ENV") = <<>>
    THEN [err |-> ErrorfWrapWords(ErrMissingRequiredEnvVar, <<"APP_ENV">>),
          cfg |-> ZeroConfig]
    ELSE IF Getenv(e, "APP_NAME") = <<>>
    THEN [err |-> ErrorfWrapWords(ErrMissingRequiredEnvVar, <<"APP_NAME">>),
          cfg |-> ZeroConfig]
    ELSE LET c == LoggerConfig(ToUpper(Getenv(e, "LOG_LEVEL")),
                               ToLower(Getenv(e, "APP_ENV")),
                               TrimSpace(Getenv(e, "APP_NAME")))
         IN  IF LoggerConfigValidate(c) # NilErr
             THEN [err |-> LoggerConfigValidate(c), cfg |-> ZeroConfig]
             ELSE [err |-> NilErr, cfg |-> c]

\* Mutant of loadLoggerConfig: the variables are looked up in the order
\* APP_NAME, APP_ENV, LOG_LEVEL.
loadLoggerConfig_NameFirst(e) ==
    IF Getenv(e, "APP_NAME") = <<>>
    THEN [err |-> ErrorfWrapWords(ErrMissingRequiredEnvVar, <<"APP_NAME">>),
          cfg |-> ZeroConfig]
    ELSE IF Getenv(e, "APP_ENV") = <<>>
    THEN [err |-> ErrorfWrapWords(ErrMissingRequiredEnvVar, <<"APP_ENV">>),
          cfg |-> ZeroConfig]
    ELSE IF Getenv(e, "LOG_LEVEL") = <<>>
    THEN [err |-> ErrorfWrapWords(ErrMissingRequiredEnvVar, <<"LOG_LEVEL">>),
          cfg |-> ZeroConfig]
    ELSE LET c == LoggerConfig(ToUpper(Getenv(e, "LOG_LEVEL")),
                               ToLower(Getenv(e, "APP_ENV")),
                               Getenv(e, "APP_NAME"))
         IN  IF LoggerConfigValidate(c) # NilErr
             THEN [err |-> LoggerConfigValidate(c), cfg |-> ZeroConfig]
             ELSE [err |-> NilErr, cfg |-> c]

\* config.loadLoggerConfig
loadLoggerConfig(e) ==
    IF Getenv(e, "LOG_LEVEL") = <<>>
    THEN [err |-> ErrorfWrapWords(ErrMissingRequiredEnvVar, <<"LOG_LEVEL">>),
          cfg |-> ZeroConfig]
    ELSE IF Getenv(e, "APP_ENV") = <<>>
    THEN [err |-> ErrorfWrapWords(ErrMissingRequiredEnvVar, <<"APP_ENV">>),
          cfg |-> ZeroConfig]
    ELSE IF Getenv(e, "APP_NAME") = <<>>
    THEN [err |-> ErrorfWrapWords(ErrMissingRequiredEnvVar, <<"APP_NAME">>),
          cfg |-> ZeroConfig]
    ELSE LET c == LoggerConfig(ToUpper(Getenv(e, "LOG_LEVEL")),
                               ToLower(Getenv(e, "APP_ENV")),
                               Getenv(e, "APP_NAME"))
         IN  IF LoggerConfigValidate(c) # NilErr
             THEN [err |-> LoggerConfigValidate(c), cfg |-> ZeroConfig]
             ELSE [err |-> NilErr, cfg |-> c]

\* config.Config.Validate
ConfigValidate(c) ==
    IF LoggerConfigValidate(c) # NilErr
    THEN ErrorfPrefixWrap("logger configuration error", LoggerConfigValidate(c))
    ELSE NilErr

\* config.Load
Load(e, f) ==
    LET file == loadEnvFile(e, f) IN
    IF file.err # NilErr
    THEN [err |-> file.err, cfg |-> ZeroConfig, env |-> file.env]
    ELSE LET lc == loadLoggerConfig(file.env) IN
         IF lc.err # NilErr
         THEN [err |-> lc.err, cfg |-> ZeroConfig, env |-> file.env]
         ELSE IF ConfigValidate(lc.cfg) # NilErr
              THEN [err |-> ConfigValidate(lc.cfg), cfg |-> ZeroConfig,
                    env |-> file.env]
              ELSE [err |-> NilErr, cfg |-> lc.cfg, env |-> file.env]

\* ------------------------------------------------------------------- state

\* the nil *Logger
Nil == 0

VARIABLES
    globalLogger,   \* var globalLogger *Logger: Nil or an index into heap
    mu,             \* var mu sync.RWMutex: its writer (0: none) and its readers
    heap,           \* the Logger objects allocated so far
    env,            \* the process environment
    dotenv,         \* the .env file of the working directory
    pc,             \* pc[t]: where goroutine t is in the call it is making
    frame,          \* frame[t]: arguments and locals of that call
    ncalls,         \* number of public calls started
    successCount,   \* number of InitGlobal calls that returned nil
    replaceCalls,   \* number of ReplaceGlobal calls started
    lastInit        \* the handle stored by the last successful InitGlobal

vars == <<globalLogger, mu, heap, env, dotenv, pc, frame, ncalls,
          successCount, replaceCalls, lastInit>>

\* Mutant of CanLock: the exclusive lock is not taken.
CanLock_NoExclusion(m) == TRUE

\* sync.RWMutex: Lock waits until there is no writer and no reader
CanLock(m) == m.writer = 0 /\ m.readers = {}

\* Mutant of CanRLock: the shared lock is not taken.
CanRLock_NoExclusion(m) == TRUE

\* sync.RWMutex: RLock waits until there is no writer
CanRLock(m) == m.writer = 0

\* the channel done of SyncWithTimeout: empty, or holding the error of the
\* Sync that ran in the goroutine, with what that Sync read and flushed
ZeroDone == [full |-> FALSE, err |-> NilErr, flush |-> NilErr, seen |-> Nil,
             flushed |-> FALSE]

\* frame of a call: entry is the public function called, cfg and arg its
\* arguments, seen the value the call read from globalLogger, built the zap
\* logger it built, flushed whether it synced the zap logger and flush the
\* error that gave; kind ("return" or "panic"), err and val are its result.
\* For SyncWithTimeout: callid names the call, done is its channel, timer
\* tells whether its timer can fire before the call is over; the goroutine
\* it starts has parent and callid of the call that started it.
\* For the emission functions and With: given is the fields argument and
\* emitted the entries the call wrote. For MustInitFromEnv: err is what its
\* InitFromEnv returned and msg the string it panics with.
ZeroFrame == [entry |-> "none", cfg |-> ZeroConfig, arg |-> Nil, seen |-> Nil,
              kind |-> "return", err |-> NilErr, val |-> Nil,
              built |-> ZeroLogger, flush |-> NilErr, flushed |-> FALSE,
              parent |-> 0, callid |-> 0, done |-> ZeroDone, timer |-> FALSE,
              given |-> <<>>, emitted |-> <<>>, msg |-> <<>>]


\* ------------------------------------------------------------------ inputs

ServiceA == <<"a">>
ServiceB == <<"a", " ", "b">>
Blank    == <<" ", "\t">>

\* Mutant of DefaultConfig: the defaults are those of production.
DefaultConfig_Production ==
    LoggerConfig(LogLevelInfo, EnvProduction, <<"a","p","p">>)

\* the configuration of InitWithDefaults
DefaultConfig == LoggerConfig(LogLevelInfo, EnvDevelopment, <<"a","p","p">>)

ValidConfigs ==
    { LoggerConfig(LogLevelInfo, EnvDevelopment, ServiceA),
      LoggerConfig(LogLevelDebug, EnvProduction, ServiceB) }

InvalidConfigs ==
    { LoggerConfig(<<"i","n","f","o">>, EnvDevelopment, <<>>),
      LoggerConfig(LogLevelWarn, <<"s","t","a","g","i","n","g">>, Blank),
      LoggerConfig(LogLevelError, EnvProduction, Blank) }

\* the configurations InitGlobal is called with
Configs == ValidConfigs \cup InvalidConfigs

EnvOf(level, environment, name) ==
    [k \in EnvKeys |-> CASE k = "LOG_LEVEL" -> level
                         [] k = "APP_ENV"   -> environment
                         [] OTHER           -> name]

\* the process environments a run starts with
Environments ==
    { EnvOf(SetTo(<<"w","a","r","n">>), Unset, Unset) }

\* the .env files a run starts with
DotenvFiles ==
    { [state |-> "absent", vars |-> EnvOf(Unset, Unset, Unset)],
      [state |-> "ok",
       vars  |-> EnvOf(SetTo(LogLevelDebug), SetTo(EnvDevelopment), SetTo(ServiceA))] }

\* -------------------------------------------------------------------- Init

Init ==
    /\ globalLogger = Nil
    /\ mu = [writer |-> 0, readers |-> {}]
    /\ heap = <<>>
    /\ env \in Environments
    /\ dotenv \in DotenvFiles
    /\ pc = [t \in Threads |-> "idle"]
    /\ frame = [t \in Threads |-> ZeroFrame]
    /\ ncalls = 0
    /\ successCount = 0
    /\ replaceCalls = 0
    /\ lastInit = Nil

\* a goroutine that is not in a call starts one
Begin(t, entry, first) ==
    /\ pc[t] = "idle"
    /\ ncalls < MaxCalls
    /\ ncalls' = ncalls + 1
    /\ pc' = [pc EXCEPT ![t] = first]

\* the call of t ends: frame[t] held what its caller gets (kind, err, val)
End(t) ==
    /\ pc' = [pc EXCEPT ![t] = "idle"]
    /\ frame' = [frame EXCEPT ![t] = ZeroFrame]

\* InitFromEnv returns: to MustInitFromEnv when that called it, which goes
\* on with the error in frame[t].err, and otherwise to the caller
EndInitFromEnv(t) ==
    IF frame[t].entry = "MustInitFromEnv"
    THEN /\ pc' = [pc EXCEPT ![t] = "must_check"]
         /\ frame' = frame
    ELSE End(t)

\* -------------------------------------------------------------- InitGlobal

CallInitGlobal(t, cfg) ==
    /\ Begin(t, "InitGlobal", "init_lock")
    /\ frame' = [frame EXCEPT ![t] = [ZeroFrame EXCEPT !.entry = "InitGlobal",
                                                       !.cfg = cfg]]
    /\ UNCHANGED <<globalLogger, mu, heap, env, dotenv, successCount,
                   replaceCalls, lastInit>>

\* InitWithDefaults: return InitGlobal(cfg) with the default configuration
CallInitWithDefaults(t) ==
    /\ Begin(t, "InitWithDefaults", "init_lock")
    /\ frame' = [frame EXCEPT ![t] = [ZeroFrame EXCEPT !.entry = "InitWithDefaults",
                                                       !.cfg = DefaultConfig]]
    /\ UNCHANGED <<globalLogger, mu, heap, env, dotenv, successCount,
                   replaceCalls, lastInit>>

\* InitFromEnv starts: config.Load comes first
CallInitFromEnv(t) ==
    /\ Begin(t, "InitFromEnv", "env_load")
    /\ frame' = [frame EXCEPT ![t] = [ZeroFrame EXCEPT !.entry = "InitFromEnv"]]
    /\ UNCHANGED <<globalLogger, mu, heap, env, dotenv, successCount,
                   replaceCalls, lastInit>>

\* MustInitFromEnv starts: InitFromEnv comes first
CallMustInitFromEnv(t) ==
    /\ Begin(t, "MustInitFromEnv", "env_load")
    /\ frame' = [frame EXCEPT ![t] = [ZeroFrame EXCEPT !.entry = "MustInitFromEnv"]]
    /\ UNCHANGED <<globalLogger, mu, heap, env, dotenv, successCount,
                   replaceCalls, lastInit>>

\* Mutant of InitFromEnvError: the load error is printed, not wrapped.
InitFromEnvError_Unwrapped(e) ==
    [chain |-> << >>, text |-> <<"failed to load configuration">> \o e.text]

\* fmt.Errorf("failed to load configuration: %w", err)
InitFromEnvError(e) == ErrorfPrefixWrap("failed to load configuration", e)

\* InitFromEnv: cfg, err := config.Load(); on an error return it wrapped,
\* otherwise go on with InitGlobal(cfg.Logger)
InitFromEnvLoad(t) ==
    /\ pc[t] = "env_load"
    /\ LET r == Load(env, dotenv) IN
       /\ env' = r.env
       /\ IF r.err # NilErr
          THEN /\ pc' = [pc EXCEPT ![t] = "env_return"]
               /\ frame' = [frame EXCEPT ![t].err = InitFromEnvError(r.err)]
          ELSE /\ pc' = [pc EXCEPT ![t] = "init_lock"]
               /\ frame' = [frame EXCEPT ![t].cfg = r.cfg]
    /\ UNCHANGED <<globalLogger, mu, heap, dotenv, ncalls, successCount,
                   replaceCalls, lastInit>>

\* InitFromEnv returns the wrapped error of config.Load
InitFromEnvReturn(t) ==
    /\ pc[t] = "env_return"
    /\ EndInitFromEnv(t)
    /\ UNCHANGED <<globalLogger, mu, heap, env, dotenv, ncalls, successCount,
                   replaceCalls, lastInit>>

\* mu.Lock()
InitLock(t) ==
    /\ pc[t] = "init_lock"
    /\ CanLock(mu)
    /\ mu' = [mu EXCEPT !.writer = t]
    /\ pc' = [pc EXCEPT ![t] = "init_check"]
    /\ UNCHANGED <<globalLogger, heap, env, dotenv, frame, ncalls,
                   successCount, replaceCalls, lastInit>>

\* Mutant of InitAfterCheck: InitGlobal replaces an existing logger.
InitAfterCheck_NoCheck(g) == "init_validate"

\* where InitGlobal goes after `if globalLogger != nil`
InitAfterCheck(g) == IF g # Nil THEN "init_unlock" ELSE "init_validate"

\* if globalLogger != nil { return ErrAlreadyInitialized }
InitCheck(t) ==
    /\ pc[t] = "init_check"
    /\ pc' = [pc EXCEPT ![t] = InitAfterCheck(globalLogger)]
    /\ frame' = [frame EXCEPT ![t].seen = globalLogger,
                              ![t].err =
                                  IF InitAfterCheck(globalLogger) = "init_unlock"
                                  THEN ErrAlreadyInitialized ELSE NilErr]
    /\ UNCHANGED <<globalLogger, mu, heap, env, dotenv, ncalls,
                   successCount, replaceCalls, lastInit>>

\* Mutant of InvalidConfigError: the validation error is returned as it is.
InvalidConfigError_Unwrapped(e) == e

\* the error InitGlobal returns for the error e of validateConfig
InvalidConfigError(e) == ErrorfWrapThenPrint(ErrInvalidConfig, e)

\* if err := validateConfig(cfg); err != nil { return fmt.Errorf(...) }
InitValidate(t) ==
    /\ pc[t] = "init_validate"
    /\ LET e == validateConfig(frame[t].cfg) IN
       IF e # NilErr
       THEN /\ frame' = [frame EXCEPT ![t].err = InvalidConfigError(e)]
            /\ pc' = [pc EXCEPT ![t] = "init_unlock"]
       ELSE /\ frame' = frame
            /\ pc' = [pc EXCEPT ![t] = "init_build"]
    /\ UNCHANGED <<globalLogger, mu, heap, env, dotenv, ncalls,
                   successCount, replaceCalls, lastInit>>

\* zapLogger, err := buildLogger(cfg)
InitBuild(t) ==
    /\ pc[t] = "init_build"
    /\ LET r == buildLogger(frame[t].cfg) IN
       IF r.err # NilErr
       THEN /\ frame' = [frame EXCEPT ![t].err =
                           ErrorfPrefixWrap("failed to build logger", r.err)]
            /\ pc' = [pc EXCEPT ![t] = "init_unlock"]
       ELSE /\ frame' = [frame EXCEPT ![t].built = r.logger]
            /\ pc' = [pc EXCEPT ![t] = "init_store"]
    /\ UNCHANGED <<globalLogger, mu, heap, env, dotenv, ncalls,
                   successCount, replaceCalls, lastInit>>

\* globalLogger = &Logger{Logger: zapLogger}
InitStore(t) ==
    /\ pc[t] = "init_store"
    /\ heap' = Append(heap, frame[t].built)
    /\ globalLogger' = Len(heap) + 1
    /\ frame' = [frame EXCEPT ![t].val = Len(heap) + 1]
    /\ pc' = [pc EXCEPT ![t] = "init_unlock"]
    /\ UNCHANGED <<mu, env, dotenv, ncalls, successCount, replaceCalls,
                   lastInit>>

\* the deferred mu.Unlock(), and the return
InitUnlock(t) ==
    /\ pc[t] = "init_unlock"
    /\ mu' = [mu EXCEPT !.writer = 0]
    /\ EndInitFromEnv(t)
    /\ successCount' = IF frame[t].err = NilErr THEN successCount + 1
                       ELSE successCount
    /\ lastInit' = IF frame[t].err = NilErr THEN frame[t].val ELSE lastInit
    /\ UNCHANGED <<globalLogger, heap, env, dotenv, ncalls, replaceCalls>>

\* Mutant of MustPanics: an initialized logger is no reason to panic.
MustPanics_IgnoresAlreadyInitialized(err) ==
    err # NilErr /\ ~ErrorsIs(err, ErrAlreadyInitialized)

\* MustInitFromEnv: if err := InitFromEnv(); err != nil { panic(...) }
MustPanics(err) == err # NilErr

\* fmt.Sprintf("failed to initialize logger from environment: %v", err)
MustPanicMessage(err) ==
    <<"failed to initialize logger from environment">> \o err.text

MustCheck(t) ==
    /\ pc[t] = "must_check"
    /\ frame' = IF MustPanics(frame[t].err)
                THEN [frame EXCEPT ![t].kind = "panic",
                                   ![t].msg = MustPanicMessage(frame[t].err)]
                ELSE frame
    /\ pc' = [pc EXCEPT ![t] = "must_return"]
    /\ UNCHANGED <<globalLogger, mu, heap, env, dotenv, ncalls, successCount,
                   replaceCalls, lastInit>>

\* MustInitFromEnv returns, or its panic reaches the caller
MustReturn(t) ==
    /\ pc[t] = "must_return"
    /\ End(t)
    /\ UNCHANGED <<globalLogger, mu, heap, env, dotenv, ncalls, successCount,
                   replaceCalls, lastInit>>

\* --------------------------------------------------------------------- Get

CallGet(t) ==
    /\ Begin(t, "Get", "get_rlock")
    /\ frame' = [frame EXCEPT ![t] = [ZeroFrame EXCEPT !.entry = "Get"]]
    /\ UNCHANGED <<globalLogger, mu, heap, env, dotenv, successCount,
                   replaceCalls, lastInit>>

\* mu.RLock()
GetRLock(t) ==
    /\ pc[t] = "get_rlock"
    /\ CanRLock(mu)
    /\ mu' = [mu EXCEPT !.readers = @ \cup {t}]
    /\ pc' = [pc EXCEPT ![t] = "get_read"]
    /\ UNCHANGED <<globalLogger, heap, env, dotenv, frame, ncalls,
                   successCount, replaceCalls, lastInit>>

\* Mutant of GetResult: the nil check is missing.
GetResult_NoNilCheck(g) == [kind |-> "return", err |-> NilErr, val |-> g]

\* Get: if globalLogger == nil { panic(ErrNotInitialized) }; return globalLogger
GetResult(g) ==
    IF g = Nil
    THEN [kind |-> "panic", err |-> ErrNotInitialized, val |-> Nil]
    ELSE [kind |-> "return", err |-> NilErr, val |-> g]

GetRead(t) ==
    /\ pc[t] = "get_read"
    /\ frame' = [frame EXCEPT ![t].seen = globalLogger,
                              ![t].kind = GetResult(globalLogger).kind,
                              ![t].err  = GetResult(globalLogger).err,
                              ![t].val  = GetResult(globalLogger).val]
    /\ pc' = [pc EXCEPT ![t] = "get_runlock"]
    /\ UNCHANGED <<globalLogger, mu, heap, env, dotenv, ncalls,
                   successCount, replaceCalls, lastInit>>

\* Mutant of DeferredRUnlock: the unlock is not deferred, a panic skips it.
DeferredRUnlock_SkippedOnPanic(m, t, kind) ==
    IF kind = "panic" THEN m ELSE [m EXCEPT !.readers = @ \ {t}]

\* Mutant of DeferredRUnlock: the read lock stays with the caller.
DeferredRUnlock_Missing(m, t, kind) == m

\* defer mu.RUnlock(): runs when Get returns and when it panics
DeferredRUnlock(m, t, kind) == [m EXCEPT !.readers = @ \ {t}]

\* the deferred mu.RUnlock(); then Get returns, or its panic goes on to the
\* caller, which recovers it
GetRUnlock(t) ==
    /\ pc[t] = "get_runlock"
    /\ mu' = DeferredRUnlock(mu, t, frame[t].kind)
    /\ End(t)
    /\ UNCHANGED <<globalLogger, heap, env, dotenv, ncalls, successCount,
                   replaceCalls, lastInit>>

\* ------------------------------------------------------------------ TryGet

CallTryGet(t) ==
    /\ Begin(t, "TryGet", "try_rlock")
    /\ frame' = [frame EXCEPT ![t] = [ZeroFrame EXCEPT !.entry = "TryGet"]]
    /\ UNCHANGED <<globalLogger, mu, heap, env, dotenv, successCount,
                   replaceCalls, lastInit>>

\* mu.RLock()
TryGetRLock(t) ==
    /\ pc[t] = "try_rlock"
    /\ CanRLock(mu)
    /\ mu' = [mu EXCEPT !.readers = @ \cup {t}]
    /\ pc' = [pc EXCEPT ![t] = "try_read"]
    /\ UNCHANGED <<globalLogger, heap, env, dotenv, frame, ncalls,
                   successCount, replaceCalls, lastInit>>

\* TryGet: if globalLogger == nil { return nil, ErrNotInitialized };
\* return globalLogger, nil
TryGetResult(g) ==
    IF g = Nil
    THEN [kind |-> "return", err |-> ErrNotInitialized, val |-> Nil]
    ELSE [kind |-> "return", err |-> NilErr, val |-> g]

TryGetRead(t) ==
    /\ pc[t] = "try_read"
    /\ frame' = [frame EXCEPT ![t].seen = globalLogger,
                              ![t].kind = TryGetResult(globalLogger).kind,
                              ![t].err  = TryGetResult(globalLogger).err,
                              ![t].val  = TryGetResult(globalLogger).val]
    /\ pc' = [pc EXCEPT ![t] = "try_runlock"]
    /\ UNCHANGED <<globalLogger, mu, heap, env, dotenv, ncalls,
                   successCount, replaceCalls, lastInit>>

\* the deferred mu.RUnlock(), and the return
TryGetRUnlock(t) ==
    /\ pc[t] = "try_runlock"
    /\ mu' = [mu EXCEPT !.readers = @ \ {t}]
    /\ End(t)
    /\ UNCHANGED <<globalLogger, heap, env, dotenv, ncalls, successCount,
                   replaceCalls, lastInit>>

\* ----------------------------------------------------------- ReplaceGlobal

\* ReplaceGlobal(newLogger): newLogger is nil (h = Nil), a Logger that exists
\* already, or one the caller has just built (h = Len(heap) + 1)
CallReplaceGlobal(t, h) ==
    /\ Begin(t, "ReplaceGlobal", "rep_lock")
    /\ h \in 0..(Len(heap) + 1)
    /\ heap' = IF h = Len(heap) + 1 THEN Append(heap, ExternalLogger) ELSE heap
    /\ frame' = [frame EXCEPT ![t] = [ZeroFrame EXCEPT !.entry = "ReplaceGlobal",
                                                       !.arg = h]]
    /\ replaceCalls' = replaceCalls + 1
    /\ UNCHANGED <<globalLogger, mu, env, dotenv, successCount, lastInit>>

\* mu.Lock()
ReplaceLock(t) ==
    /\ pc[t] = "rep_lock"
    /\ CanLock(mu)
    /\ mu' = [mu EXCEPT !.writer = t]
    /\ pc' = [pc EXCEPT ![t] = "rep_store"]
    /\ UNCHANGED <<globalLogger, heap, env, dotenv, frame, ncalls,
                   successCount, replaceCalls, lastInit>>

\* Mutant of ReplaceEffect: the Logger the global handle points to is
\* overwritten with the new one (*globalLogger = *newLogger).
ReplaceEffect_Overwrite(g, hp, newLogger) ==
    IF g # Nil /\ newLogger # Nil
    THEN [global |-> g, heap |-> [hp EXCEPT ![g] = hp[newLogger]]]
    ELSE [global |-> newLogger, heap |-> hp]

\* globalLogger = newLogger: the global handle and the Loggers after it
ReplaceEffect(g, hp, newLogger) == [global |-> newLogger, heap |-> hp]

\* globalLogger = newLogger
ReplaceStore(t) ==
    /\ pc[t] = "rep_store"
    /\ globalLogger' = ReplaceEffect(globalLogger, heap, frame[t].arg).global
    /\ heap' = ReplaceEffect(globalLogger, heap, frame[t].arg).heap
    /\ pc' = [pc EXCEPT ![t] = "rep_unlock"]
    /\ UNCHANGED <<mu, env, dotenv, frame, ncalls, successCount,
                   replaceCalls, lastInit>>

\* the deferred mu.Unlock(), and the return
ReplaceUnlock(t) ==
    /\ pc[t] = "rep_unlock"
    /\ mu' = [mu EXCEPT !.writer = 0]
    /\ End(t)
    /\ UNCHANGED <<globalLogger, heap, env, dotenv, ncalls, successCount,
                   replaceCalls, lastInit>>

\* ---------------------------------------------------------- validateConfig

\* the levels, environments and names validation is exercised with:
\* canonical values, letter-case variants, foreign and empty values
ValidateLevels ==
    { LogLevelDebug, LogLevelInfo, LogLevelWarn, LogLevelError,
      <<"d","e","b","u","g">>, <<"T","R","A","C","E">>, <<>> }

ValidateEnvironments ==
    { EnvDevelopment, EnvProduction,
      <<"P","R","O","D","U","C","T","I","O","N">>,
      <<"s","t","a","g","i","n","g">>, <<>> }

ValidateNames == { ServiceA, <<" ", "A", " ", "b", "\t">>, Blank, <<>> }

ValidateConfigs ==
    { LoggerConfig(l, e, n) :
        l \in ValidateLevels, e \in ValidateEnvironments, n \in ValidateNames }

\* err := validateConfig(cfg), called on its own
CallValidateConfig(t, cfg) ==
    /\ Begin(t, "validateConfig", "validate_return")
    /\ frame' = [frame EXCEPT ![t] = [ZeroFrame EXCEPT
                                         !.entry = "validateConfig",
                                         !.cfg = cfg,
                                         !.err = validateConfig(cfg)]]
    /\ UNCHANGED <<globalLogger, mu, heap, env, dotenv, successCount,
                   replaceCalls, lastInit>>

\* the caller has the error of validateConfig
ValidateReturn(t) ==
    /\ pc[t] = "validate_return"
    /\ End(t)
    /\ UNCHANGED <<globalLogger, mu, heap, env, dotenv, ncalls, successCount,
                   replaceCalls, lastInit>>

\* ------------------------------------------------------------- config.Load

\* the values of LOG_LEVEL, APP_ENV and APP_NAME Load is exercised with
LoadLevels ==
    { Unset, SetTo(<<>>), SetTo(<<"d","e","b","u","g">>), SetTo(<<"I","n","f","o">>),
      SetTo(<<"w","A","r","N">>), SetTo(LogLevelError),
      SetTo(<<"T","R","A","C","E">>) }

LoadAppEnvs ==
    { Unset, SetTo(<<>>), SetTo(<<"P","R","O","D","U","C","T","I","O","N">>),
      SetTo(<<"P","r","o","d","u","c","t","i","o","n">>),
      SetTo(EnvDevelopment),
      SetTo(<<"D","e","V","e","L","o","P","m","E","n","T">>),
      SetTo(<<"s","t","a","g","i","n","g">>) }

LoadAppNames ==
    { Unset, SetTo(<<>>), SetTo(<<" ", "A", " ", "b", "\t">>), SetTo(Blank) }

LoadEnvironments ==
    { EnvOf(l, e, n) : l \in LoadLevels, e \in LoadAppEnvs, n \in LoadAppNames }

\* the .env files Load is exercised with
LoadDotenvFiles ==
    { [state |-> "absent", vars |-> EnvOf(Unset, Unset, Unset)],
      [state |-> "unreadable", vars |-> EnvOf(Unset, Unset, Unset)],
      [state |-> "ok",
       vars  |-> EnvOf(SetTo(<<"w","a","r","n">>), SetTo(EnvProduction),
                       SetTo(ServiceB))],
      [state |-> "ok",
       vars  |-> EnvOf(SetTo(LogLevelError), Unset, Unset)] }

\* the configurations that differ from a valid one by letter case only
CaseVariantConfigs ==
    { LoggerConfig(<<"d","e","b","u","g">>, EnvProduction, ServiceA),
      LoggerConfig(<<"I","n","f","o">>, EnvDevelopment, ServiceA),
      LoggerConfig(LogLevelWarn, <<"P","R","O","D","U","C","T","I","O","N">>,
                   ServiceA),
      LoggerConfig(LogLevelError, <<"D","e","V","e","L","o","P","m","E","n","T">>,
                   ServiceA),
      LoggerConfig(LogLevelDebug, EnvProduction, ServiceA) }

\* cfg, err := config.Load(), called on its own
CallLoad(t) ==
    /\ Begin(t, "Load", "load_return")
    /\ LET r == Load(env, dotenv) IN
       /\ env' = r.env
       /\ frame' = [frame EXCEPT ![t] = [ZeroFrame EXCEPT !.entry = "Load",
                                                          !.cfg = r.cfg,
                                                          !.err = r.err]]
    /\ UNCHANGED <<globalLogger, mu, heap, dotenv, successCount,
                   replaceCalls, lastInit>>

\* the caller has the result of config.Load
LoadReturn(t) ==
    /\ pc[t] = "load_return"
    /\ End(t)
    /\ UNCHANGED <<globalLogger, mu, heap, env, dotenv, ncalls, successCount,
                   replaceCalls, lastInit>>

\* ------------------------------------------------------------- Logger.Sync

\* the errno values of package syscall that matter to Sync, and one more
EINVAL == Sentinel("syscall.EINVAL")
ENOTTY == Sentinel("syscall.ENOTTY")
EBADF  == Sentinel("syscall.EBADF")
EIO    == Sentinel("syscall.EIO")

\* what l.Logger.Sync() can return: nil, an errno, an errno wrapped by the
\* file layer, or an error of the writer's own
FlushOutcomes ==
    { NilErr, EINVAL, ENOTTY, EBADF, EIO,
      ErrorfPrefixWrap("sync /dev/stdout", ENOTTY),
      ErrorfPrefixWrap("sync /dev/stdout", EBADF),
      ErrorfPrefixWrap("sync /dev/stdout", EIO),
      Sentinel("some other error") }

\* Mutant of isIgnorableSyncError: EBADF is not in the list.
isIgnorableSyncError_NoEBADF(err) ==
    ErrorsIs(err, EINVAL) \/ ErrorsIs(err, ENOTTY)

\* logger.isIgnorableSyncError
isIgnorableSyncError(err) ==
    ErrorsIs(err, EINVAL) \/ ErrorsIs(err, ENOTTY) \/ ErrorsIs(err, EBADF)

\* (*Logger).Sync, given the error flush of l.Logger.Sync()
LoggerSync(flush) ==
    IF flush # NilErr /\ ~isIgnorableSyncError(flush)
    THEN ErrorfWrapThenPrint(ErrSyncFailed, flush)
    ELSE NilErr

\* err := l.Sync() on the logger h, whose zap logger answers with flush
CallLoggerSync(t, h, flush) ==
    /\ h \in 1..Len(heap)
    /\ Begin(t, "Logger.Sync", "sync_return")
    /\ frame' = [frame EXCEPT ![t] = [ZeroFrame EXCEPT !.entry = "Logger.Sync",
                                                       !.arg = h,
                                                       !.flush = flush,
                                                       !.flushed = TRUE,
                                                       !.err = LoggerSync(flush)]]
    /\ UNCHANGED <<globalLogger, mu, heap, env, dotenv, successCount,
                   replaceCalls, lastInit>>

\* the caller has the error of l.Sync()
SyncReturn(t) ==
    /\ pc[t] = "sync_return"
    /\ End(t)
    /\ UNCHANGED <<globalLogger, mu, heap, env, dotenv, ncalls, successCount,
                   replaceCalls, lastInit>>

\* -------------------------------------------------------------------- Sync

\* Sync(): log, err := TryGet() comes first
CallSync(t) ==
    /\ Begin(t, "Sync", "psync_rlock")
    /\ frame' = [frame EXCEPT ![t] = [ZeroFrame EXCEPT !.entry = "Sync"]]
    /\ UNCHANGED <<globalLogger, mu, heap, env, dotenv, successCount,
                   replaceCalls, lastInit>>

\* TryGet: mu.RLock()
SyncRLock(t) ==
    /\ pc[t] = "psync_rlock"
    /\ CanRLock(mu)
    /\ mu' = [mu EXCEPT !.readers = @ \cup {t}]
    /\ pc' = [pc EXCEPT ![t] = "psync_read"]
    /\ UNCHANGED <<globalLogger, heap, env, dotenv, frame, ncalls,
                   successCount, replaceCalls, lastInit>>

\* TryGet: the nil check
SyncRead(t) ==
    /\ pc[t] = "psync_read"
    /\ frame' = [frame EXCEPT ![t].seen = globalLogger,
                              ![t].kind = TryGetResult(globalLogger).kind,
                              ![t].err  = TryGetResult(globalLogger).err,
                              ![t].val  = TryGetResult(globalLogger).val]
    /\ pc' = [pc EXCEPT ![t] = "psync_runlock"]
    /\ UNCHANGED <<globalLogger, mu, heap, env, dotenv, ncalls,
                   successCount, replaceCalls, lastInit>>

\* Mutant of SyncAfterTryGet: the error of TryGet is not looked at.
SyncAfterTryGet_AlwaysFlush(err) == "psync_flush"

\* where Sync goes after TryGet: if err != nil { return err }; return log.Sync()
SyncAfterTryGet(err) == IF err # NilErr THEN "psync_return" ELSE "psync_flush"

\* TryGet: the deferred mu.RUnlock(); then Sync looks at the error
SyncRUnlock(t) ==
    /\ pc[t] = "psync_runlock"
    /\ mu' = DeferredRUnlock(mu, t, frame[t].kind)
    /\ pc' = [pc EXCEPT ![t] = SyncAfterTryGet(frame[t].err)]
    /\ UNCHANGED <<globalLogger, heap, env, dotenv, frame, ncalls,
                   successCount, replaceCalls, lastInit>>

\* log.Sync(): the zap logger answers with flush
SyncFlush(t, flush) ==
    /\ pc[t] = "psync_flush"
    /\ frame' = [frame EXCEPT ![t].flush = flush,
                              ![t].flushed = TRUE,
                              ![t].err = LoggerSync(flush)]
    /\ pc' = [pc EXCEPT ![t] = "psync_return"]
    /\ UNCHANGED <<globalLogger, mu, heap, env, dotenv, ncalls,
                   successCount, replaceCalls, lastInit>>

\* Sync returns to its caller
SyncDone(t) ==
    /\ pc[t] = "psync_return"
    /\ frame[t].parent = 0
    /\ End(t)
    /\ UNCHANGED <<globalLogger, mu, heap, env, dotenv, ncalls, successCount,
                   replaceCalls, lastInit>>

\* --------------------------------------------------------- SyncWithTimeout

\* Mutant of TimeoutError: the timeout is reported as a failed sync.
TimeoutError_AsSyncFailed ==
    [chain |-> ErrSyncFailed.chain,
     text |-> ErrSyncFailed.text \o <<"sync timeout after">>]

\* fmt.Errorf("sync timeout after %v", timeout)
TimeoutError == [chain |-> <<>>, text |-> <<"sync timeout after">>]

\* the goroutine u that SyncWithTimeout starts: go func() { done <- Sync() }()
\* for the package-level form, done <- l.Sync() for the method on logger h
Spawned(t, u, id, h) ==
    IF h = Nil
    THEN [ZeroFrame EXCEPT !.entry = "Sync", !.parent = t, !.callid = id]
    ELSE [ZeroFrame EXCEPT !.entry = "Logger.Sync", !.arg = h,
                           !.parent = t, !.callid = id]

\* SyncWithTimeout(timeout) and l.SyncWithTimeout(timeout): make the channel,
\* start the goroutine u and go to the select
StartSyncWithTimeout(t, u, h, timer, entry) ==
    /\ pc[t] = "idle"
    /\ ncalls < MaxCalls
    /\ u # t
    /\ pc[u] = "idle"
    /\ ncalls' = ncalls + 1
    /\ pc' = [pc EXCEPT ![t] = "swt_select",
                        ![u] = IF h = Nil THEN "psync_rlock" ELSE "psync_flush"]
    /\ frame' = [frame EXCEPT
                   ![t] = [ZeroFrame EXCEPT !.entry = entry, !.arg = h,
                                            !.callid = ncalls + 1,
                                            !.timer = timer],
                   ![u] = Spawned(t, u, ncalls + 1, h)]
    /\ UNCHANGED <<globalLogger, mu, heap, env, dotenv, successCount,
                   replaceCalls, lastInit>>

CallSyncWithTimeout(t, u, timer) ==
    StartSyncWithTimeout(t, u, Nil, timer, "SyncWithTimeout")

CallLoggerSyncWithTimeout(t, h, u, timer) ==
    /\ h \in 1..Len(heap)
    /\ StartSyncWithTimeout(t, u, h, timer, "Logger.SyncWithTimeout")

\* Mutant of DoneCapacity: the channel is unbuffered.
DoneCapacity_Unbuffered == 1 - 1

\* done := make(chan error, 1)
DoneCapacity == 1

\* done <- err of goroutine t can go on: the channel has room, or the call
\* that made it is in its select; the channel of a call that has returned
\* is still there for the goroutine, and empty
SendReady(t) ==
    LET p == frame[t].parent
        same == frame[p].callid = frame[t].callid
    IN  \/ (IF same /\ frame[p].done.full THEN 1 ELSE 0) < DoneCapacity
        \/ same /\ pc[p] = "swt_select"

\* done <- err: the goroutine puts the error of its Sync in the channel and
\* ends; nobody reads the channel of a call that has returned
SyncSend(t) ==
    /\ pc[t] = "psync_return"
    /\ frame[t].parent # 0
    /\ SendReady(t)
    /\ pc' = [pc EXCEPT ![t] = "idle"]
    /\ frame' = [u \in Threads |->
                   IF u = t THEN ZeroFrame
                   ELSE IF u = frame[t].parent /\ frame[u].callid = frame[t].callid
                   THEN [frame[u] EXCEPT !.done =
                           [full |-> TRUE, err |-> frame[t].err,
                            flush |-> frame[t].flush, seen |-> frame[t].seen,
                            flushed |-> frame[t].flushed]]
                   ELSE frame[u]]
    /\ UNCHANGED <<globalLogger, mu, heap, env, dotenv, ncalls, successCount,
                   replaceCalls, lastInit>>

\* select: case err := <-done: return err
SwtReceive(t) ==
    /\ pc[t] = "swt_select"
    /\ frame[t].done.full
    /\ frame' = [frame EXCEPT ![t].err = frame[t].done.err]
    /\ pc' = [pc EXCEPT ![t] = "swt_return"]
    /\ UNCHANGED <<globalLogger, mu, heap, env, dotenv, ncalls, successCount,
                   replaceCalls, lastInit>>

\* Mutant of TimerMayFire: every timer can fire before the call is over.
TimerMayFire_Always(timer) == TRUE

\* whether time.After(timeout) can deliver while the call is in its select
TimerMayFire(timer) == timer

\* select: case <-time.After(timeout): return the timeout error
SwtTimeout(t) ==
    /\ pc[t] = "swt_select"
    /\ TimerMayFire(frame[t].timer)
    /\ frame' = [frame EXCEPT ![t].err = TimeoutError]
    /\ pc' = [pc EXCEPT ![t] = "swt_return"]
    /\ UNCHANGED <<globalLogger, mu, heap, env, dotenv, ncalls, successCount,
                   replaceCalls, lastInit>>

\* SyncWithTimeout returns to its caller
SwtReturn(t) ==
    /\ pc[t] = "swt_return"
    /\ End(t)
    /\ UNCHANGED <<globalLogger, mu, heap, env, dotenv, ncalls, successCount,
                   replaceCalls, lastInit>>

\* ---------------------------------------------------------------- emission

\* the zap.Field arguments of the calls
Field(k, v) == [key |-> k, value |-> v]

FieldSets ==
    { << Field("user_id", <<"u">>) >>,
      << Field("component", <<"c">>), Field("request_id", <<"r">>) >> }

\* the fields of the emission calls
EmitFields == << Field("request_id", <<"r">>) >>

\* the emission functions of the package and of a Logger
EmitFunctions == {"Debug", "Info", "Warn", "Error"}

\* the zapcore level of (*zap.Logger).Debug, Info, Warn, Error
LevelOf(fn) ==
    CASE fn = "Debug" -> ZapDebugLevel
      [] fn = "Info"  -> ZapInfoLevel
      [] fn = "Warn"  -> ZapWarnLevel
      [] OTHER        -> ZapErrorLevel

\* Mutant of Emit: an entry at the level of the core is dropped too.
Emit_AboveLevelOnly(l, fn, fields) ==
    IF LevelOf(fn) > l.level
    THEN << [level |-> LevelOf(fn), fields |-> l.fields \o fields] >>
    ELSE << >>

\* (*zap.Logger).Debug/Info/Warn/Error on logger l: the entries written.
\* The core drops an entry below its level; an entry carries the fields
\* of the logger followed by the fields of the call.
Emit(l, fn, fields) ==
    IF LevelOf(fn) >= l.level
    THEN << [level |-> LevelOf(fn), fields |-> l.fields \o fields] >>
    ELSE << >>

\* Mutant of WithFields: the derived logger has the given fields only.
WithFields_DropsInherited(l, fields) == [l EXCEPT !.fields = fields]

\* (*zap.Logger).With(fields...): a clone of l with the fields added
WithFields(l, fields) == [l EXCEPT !.fields = @ \o fields]

\* logger.Debug, Info, Warn, Error (msg, fields...): Get().<fn>(msg, fields...)
CallEmit(t, fn, fields) ==
    /\ Begin(t, fn, "pkg_rlock")
    /\ frame' = [frame EXCEPT ![t] = [ZeroFrame EXCEPT !.entry = fn,
                                                       !.given = fields]]
    /\ UNCHANGED <<globalLogger, mu, heap, env, dotenv, successCount,
                   replaceCalls, lastInit>>

\* logger.With(fields...): Get().With(fields...)
CallWith(t, fields) ==
    /\ Begin(t, "With", "pkg_rlock")
    /\ frame' = [frame EXCEPT ![t] = [ZeroFrame EXCEPT !.entry = "With",
                                                       !.given = fields]]
    /\ UNCHANGED <<globalLogger, mu, heap, env, dotenv, successCount,
                   replaceCalls, lastInit>>

\* Get: mu.RLock()
PkgRLock(t) ==
    /\ pc[t] = "pkg_rlock"
    /\ CanRLock(mu)
    /\ mu' = [mu EXCEPT !.readers = @ \cup {t}]
    /\ pc' = [pc EXCEPT ![t] = "pkg_read"]
    /\ UNCHANGED <<globalLogger, heap, env, dotenv, frame, ncalls,
                   successCount, replaceCalls, lastInit>>

\* Get: the nil check and the read of globalLogger
PkgRead(t) ==
    /\ pc[t] = "pkg_read"
    /\ frame' = [frame EXCEPT ![t].seen = globalLogger,
                              ![t].kind = GetResult(globalLogger).kind,
                              ![t].err  = GetResult(globalLogger).err,
                              ![t].arg  = GetResult(globalLogger).val]
    /\ pc' = [pc EXCEPT ![t] = "pkg_runlock"]
    /\ UNCHANGED <<globalLogger, mu, heap, env, dotenv, ncalls,
                   successCount, replaceCalls, lastInit>>

\* Get: the deferred mu.RUnlock(). A panic of Get goes on through the
\* package function, which has no recover: the method is not called.
PkgRUnlock(t) ==
    /\ pc[t] = "pkg_runlock"
    /\ mu' = DeferredRUnlock(mu, t, frame[t].kind)
    /\ pc' = [pc EXCEPT ![t] = IF frame[t].kind = "panic" THEN "pkg_return"
                               ELSE IF frame[t].entry = "With" THEN "with_run"
                               ELSE "pkg_emit"]
    /\ UNCHANGED <<globalLogger, heap, env, dotenv, frame, ncalls,
                   successCount, replaceCalls, lastInit>>

\* the method of the handle Get returned: .Debug, .Info, .Warn or .Error
PkgEmit(t) ==
    /\ pc[t] = "pkg_emit"
    /\ frame' = [frame EXCEPT ![t].emitted =
                     Emit(heap[frame[t].arg], frame[t].entry, frame[t].given)]
    /\ pc' = [pc EXCEPT ![t] = "pkg_return"]
    /\ UNCHANGED <<globalLogger, mu, heap, env, dotenv, ncalls,
                   successCount, replaceCalls, lastInit>>

\* the package function returns, or its panic reaches the caller
PkgReturn(t) ==
    /\ pc[t] = "pkg_return"
    /\ End(t)
    /\ UNCHANGED <<globalLogger, mu, heap, env, dotenv, ncalls, successCount,
                   replaceCalls, lastInit>>

\* l.Debug, l.Info, l.Warn, l.Error (msg, fields...) on a handle the caller
\* holds
CallLoggerEmit(t, h, fn, fields) ==
    /\ Begin(t, "Logger.Emit", "pkg_return")
    /\ h \in 1..Len(heap)
    /\ frame' = [frame EXCEPT ![t] =
                     [ZeroFrame EXCEPT !.entry = "Logger.Emit",
                                       !.arg = h,
                                       !.given = fields,
                                       !.emitted = Emit(heap[h], fn, fields)]]
    /\ UNCHANGED <<globalLogger, mu, heap, env, dotenv, successCount,
                   replaceCalls, lastInit>>

\* l.With(fields...) on a handle the caller holds
CallLoggerWith(t, h, fields) ==
    /\ Begin(t, "Logger.With", "with_run")
    /\ h \in 1..Len(heap)
    /\ frame' = [frame EXCEPT ![t] = [ZeroFrame EXCEPT !.entry = "Logger.With",
                                                       !.arg = h,
                                                       !.given = fields]]
    /\ UNCHANGED <<globalLogger, mu, heap, env, dotenv, successCount,
                   replaceCalls, lastInit>>

\* (*Logger).With: return &Logger{Logger: l.Logger.With(fields...)}
WithRun(t) ==
    /\ pc[t] = "with_run"
    /\ heap' = Append(heap, WithFields(heap[frame[t].arg], frame[t].given))
    /\ frame' = [frame EXCEPT ![t].val = Len(heap) + 1]
    /\ pc' = [pc EXCEPT ![t] = "with_return"]
    /\ UNCHANGED <<globalLogger, mu, env, dotenv, ncalls, successCount,
                   replaceCalls, lastInit>>

\* With returns the derived handle
WithReturn(t) ==
    /\ pc[t] = "with_return"
    /\ End(t)
    /\ UNCHANGED <<globalLogger, mu, heap, env, dotenv, ncalls, successCount,
                   replaceCalls, lastInit>>

\* ---------------------------------------------------------------- WithCore

\* the cores the callers build: zapcore.NewCore(encoder, sink, level)
Cores == { [level |-> ZapInfoLevel], [level |-> ZapDebugLevel] }

\* zap.New(core, zap.AddCaller(), ...): a logger on core, with no fields
NewOnCore(core) ==
    [level |-> core.level, encoder |-> "custom", fields |-> << >>]

\* zap.New(zapcore.NewTee(l.Logger.Core(), otelCore), ...): an entry is
\* written when either core takes it; the core of l keeps the fields of l
NewOnTee(l, otelCore) ==
    [level |-> IF otelCore.level < l.level THEN otelCore.level ELSE l.level,
     encoder |-> "tee",
     fields |-> l.fields]

\* Mutant of WithCoreResult: the receiver gets the new zap logger and is
\* returned.
WithCoreResult_InPlace(hp, h, logger) ==
    [heap |-> [hp EXCEPT ![h] = logger], val |-> h]

\* return &Logger{Logger: newLogger}: the Loggers after the call, and the
\* handle returned
WithCoreResult(hp, h, logger) ==
    [heap |-> Append(hp, logger), val |-> Len(hp) + 1]

\* l.WithCore(core) and l.WithOTELCore(otelCore) on a handle the caller holds
CallLoggerWithCore(t, h, core, otel) ==
    /\ Begin(t, "Logger.WithCore", "core_run")
    /\ h \in 1..Len(heap)
    /\ frame' = [frame EXCEPT ![t] =
                     [ZeroFrame EXCEPT !.entry = IF otel THEN "Logger.WithOTELCore"
                                                 ELSE "Logger.WithCore",
                                       !.arg = h,
                                       !.built = IF otel
                                                 THEN NewOnTee(heap[h], core)
                                                 ELSE NewOnCore(core)]]
    /\ UNCHANGED <<globalLogger, mu, heap, env, dotenv, successCount,
                   replaceCalls, lastInit>>

\* WithCore: newLogger := zap.New(core, ...); return &Logger{Logger: newLogger}
WithCoreRun(t) ==
    /\ pc[t] = "core_run"
    /\ LET r == WithCoreResult(heap, frame[t].arg, frame[t].built) IN
       /\ heap' = r.heap
       /\ frame' = [frame EXCEPT ![t].val = r.val]
    /\ pc' = [pc EXCEPT ![t] = "core_return"]
    /\ UNCHANGED <<globalLogger, mu, env, dotenv, ncalls, successCount,
                   replaceCalls, lastInit>>

\* WithCore returns the new handle
WithCoreReturn(t) ==
    /\ pc[t] = "core_return"
    /\ End(t)
    /\ UNCHANGED <<globalLogger, mu, heap, env, dotenv, ncalls, successCount,
                   replaceCalls, lastInit>>

\* ------------------------------------------------------------ specification

InitGlobalSteps(t) ==
    \/ InitLock(t)
    \/ InitCheck(t)
    \/ InitValidate(t)
    \/ InitBuild(t)
    \/ InitStore(t)
    \/ InitUnlock(t)

Next ==
    \E t \in Threads :
        \/ \E cfg \in Configs : CallInitGlobal(t, cfg)
        \/ CallInitWithDefaults(t)
        \/ CallInitFromEnv(t)
        \/ InitFromEnvLoad(t)
        \/ InitFromEnvReturn(t)
        \/ InitGlobalSteps(t)
        \/ CallGet(t)
        \/ GetRLock(t)
        \/ GetRead(t)
        \/ GetRUnlock(t)
        \/ CallTryGet(t)
        \/ TryGetRLock(t)
        \/ TryGetRead(t)
        \/ TryGetRUnlock(t)
        \/ \E h \in 0..MaxCalls : CallReplaceGlobal(t, h)
        \/ ReplaceLock(t)
        \/ ReplaceStore(t)
        \/ ReplaceUnlock(t)

\* Any goroutines making any public calls, in any interleaving.
Spec == Init /\ [][Next]_vars

\* Goroutines that only call InitGlobal, each time with a valid
\* configuration, from the Uninitialized state.
NextInitRace ==
    \E t \in Threads :
        \/ \E cfg \in ValidConfigs : CallInitGlobal(t, cfg)
        \/ InitGlobalSteps(t)

SpecInitRace == Init /\ [][NextInitRace]_vars

\* Goroutines that only call InitGlobal, with valid and invalid
\* configurations, from the Uninitialized state.
NextInitMix ==
    \E t \in Threads :
        \/ \E cfg \in Configs : CallInitGlobal(t, cfg)
        \/ InitGlobalSteps(t)

SpecInitMix == Init /\ [][NextInitMix]_vars

\* One goroutine that validates configurations and initializes the logger
\* with them, one call after the other.
NextValidate ==
    \/ \E cfg \in ValidateConfigs : CallValidateConfig(1, cfg)
    \/ ValidateReturn(1)
    \/ \E cfg \in ValidateConfigs : CallInitGlobal(1, cfg)
    \/ InitGlobalSteps(1)

SpecValidate == Init /\ [][NextValidate]_vars

\* A process that starts with any of the environments and .env files above.
InitLoad ==
    /\ globalLogger = Nil
    /\ mu = [writer |-> 0, readers |-> {}]
    /\ heap = <<>>
    /\ env \in LoadEnvironments
    /\ dotenv \in LoadDotenvFiles
    /\ pc = [t \in Threads |-> "idle"]
    /\ frame = [t \in Threads |-> ZeroFrame]
    /\ ncalls = 0
    /\ successCount = 0
    /\ replaceCalls = 0
    /\ lastInit = Nil

\* One goroutine that loads the configuration, initializes the logger from
\* the environment and validates configurations, one call after the other.
NextLoad ==
    \/ CallLoad(1)
    \/ LoadReturn(1)
    \/ CallInitFromEnv(1)
    \/ InitFromEnvLoad(1)
    \/ InitFromEnvReturn(1)
    \/ InitGlobalSteps(1)
    \/ \E cfg \in CaseVariantConfigs : CallValidateConfig(1, cfg)
    \/ ValidateReturn(1)

SpecLoad == InitLoad /\ [][NextLoad]_vars

\* One goroutine of a process that starts with any of these environments
\* and .env files, and initializes the logger from the environment or with
\* the defaults, one call after the other.
NextFromEnv ==
    \/ CallInitFromEnv(1)
    \/ InitFromEnvLoad(1)
    \/ InitFromEnvReturn(1)
    \/ CallMustInitFromEnv(1)
    \/ MustCheck(1)
    \/ MustReturn(1)
    \/ CallInitWithDefaults(1)
    \/ InitGlobalSteps(1)

SpecFromEnv == InitLoad /\ [][NextFromEnv]_vars

\* Goroutines that initialize the logger and sync it.
NextSync ==
    \E t \in Threads :
        \/ \E cfg \in ValidConfigs : CallInitGlobal(t, cfg)
        \/ InitGlobalSteps(t)
        \/ \E h \in 1..MaxCalls, flush \in FlushOutcomes :
              CallLoggerSync(t, h, flush)
        \/ SyncReturn(t)

SpecSync == Init /\ [][NextSync]_vars

\* Goroutines that initialize the logger and sync it, with and without a
\* timeout.
NextSyncTimeout ==
    \/ \E cfg \in ValidConfigs : CallInitGlobal(1, cfg)
    \/ CallSync(1)
    \/ \E u \in Threads, timer \in BOOLEAN : CallSyncWithTimeout(1, u, timer)
    \/ \E h \in 1..MaxCalls, u \in Threads, timer \in BOOLEAN :
          CallLoggerSyncWithTimeout(1, h, u, timer)
    \/ \E t \in Threads :
          \/ InitGlobalSteps(t)
          \/ SyncRLock(t)
          \/ SyncRead(t)
          \/ SyncRUnlock(t)
          \/ \E flush \in FlushOutcomes : SyncFlush(t, flush)
          \/ SyncDone(t)
          \/ SyncSend(t)
          \/ SwtReceive(t)
          \/ SwtTimeout(t)
          \/ SwtReturn(t)

SpecSyncTimeout == Init /\ [][NextSyncTimeout]_vars

\* A goroutine that initializes the logger, emits through handles and derives
\* handles with With; it and the others call the package functions.
NextEmit ==
    \/ \E cfg \in ValidConfigs : CallInitGlobal(1, cfg)
    \/ \E h \in 1..MaxCalls, fn \in EmitFunctions :
          CallLoggerEmit(1, h, fn, EmitFields)
    \/ \E h \in 1..MaxCalls, fields \in FieldSets : CallLoggerWith(1, h, fields)
    \/ \E t \in Threads :
          \/ InitGlobalSteps(t)
          \/ \E fn \in EmitFunctions : CallEmit(t, fn, EmitFields)
          \/ \E fields \in FieldSets : CallWith(t, fields)
          \/ PkgRLock(t)
          \/ PkgRead(t)
          \/ PkgRUnlock(t)
          \/ PkgEmit(t)
          \/ PkgReturn(t)
          \/ WithRun(t)
          \/ WithReturn(t)

SpecEmit == Init /\ [][NextEmit]_vars

\* one valid configuration for each level
LevelConfigs ==
    { LoggerConfig(l, EnvDevelopment, ServiceA) :
        l \in {LogLevelDebug, LogLevelInfo, LogLevelWarn, LogLevelError} }

\* Goroutines that initialize the logger at any level and emit at any
\* severity through the package functions.
NextLevels ==
    \E t \in Threads :
        \/ \E cfg \in LevelConfigs : CallInitGlobal(t, cfg)
        \/ InitGlobalSteps(t)
        \/ \E fn \in EmitFunctions : CallEmit(t, fn, EmitFields)
        \/ PkgRLock(t)
        \/ PkgRead(t)
        \/ PkgRUnlock(t)
        \/ PkgEmit(t)
        \/ PkgReturn(t)

SpecLevels == Init /\ [][NextLevels]_vars

\* Goroutines that initialize the logger, make loggers on other cores from
\* the handles they hold, replace the global logger and get it.
NextCore ==
    \/ \E cfg \in ValidConfigs : CallInitGlobal(1, cfg)
    \/ \E h \in 1..MaxCalls, core \in Cores, otel \in BOOLEAN :
          CallLoggerWithCore(1, h, core, otel)
    \/ \E t \in Threads :
          \/ InitGlobalSteps(t)
          \/ WithCoreRun(t)
          \/ WithCoreReturn(t)
          \/ \E h \in 0..MaxCalls : CallReplaceGlobal(t, h)
          \/ ReplaceLock(t)
          \/ ReplaceStore(t)
          \/ ReplaceUnlock(t)
          \/ CallGet(t)
          \/ GetRLock(t)
          \/ GetRead(t)
          \/ GetRUnlock(t)

SpecCore == Init /\ [][NextCore]_vars

\* Goroutines that sync and emit through the package functions while
\* others initialize, replace and get the global logger.
NextEngine ==
    \/ CallInitGlobal(1, DefaultConfig)
    \/ \E u \in Threads : CallSyncWithTimeout(1, u, TRUE)
    \/ \E t \in Threads :
          \/ InitGlobalSteps(t)
          \/ CallSync(t)
          \/ SyncRLock(t)
          \/ SyncRead(t)
          \/ SyncRUnlock(t)
          \/ \E flush \in {NilErr, EIO} : SyncFlush(t, flush)
          \/ SyncDone(t)
          \/ SyncSend(t)
          \/ SwtReceive(t)
          \/ SwtTimeout(t)
          \/ SwtReturn(t)
          \/ CallEmit(t, "Info", EmitFields)
          \/ PkgRLock(t)
          \/ PkgRead(t)
          \/ PkgRUnlock(t)
          \/ PkgEmit(t)
          \/ PkgReturn(t)
          \/ \E h \in 0..1 : CallReplaceGlobal(t, h)
          \/ ReplaceLock(t)
          \/ ReplaceStore(t)
          \/ ReplaceUnlock(t)
          \/ CallGet(t)
          \/ GetRLock(t)
          \/ GetRead(t)
          \/ GetRUnlock(t)
          \/ CallTryGet(t)
          \/ TryGetRLock(t)
          \/ TryGetRead(t)
          \/ TryGetRUnlock(t)

SpecEngine == Init /\ [][NextEngine]_vars

\* Goroutines that get the global logger, derive from it and emit through
\* it while others initialize and replace it.
NextReplace ==
    \/ CallInitGlobal(1, DefaultConfig)
    \/ \E t \in Threads :
          \/ InitGlobalSteps(t)
          \/ \E h \in 0..MaxCalls : CallReplaceGlobal(t, h)
          \/ ReplaceLock(t)
          \/ ReplaceStore(t)
          \/ ReplaceUnlock(t)
          \/ CallGet(t)
          \/ GetRLock(t)
          \/ GetRead(t)
          \/ GetRUnlock(t)
          \/ CallTryGet(t)
          \/ TryGetRLock(t)
          \/ TryGetRead(t)
          \/ TryGetRUnlock(t)
          \/ CallEmit(t, "Info", EmitFields)
          \/ CallWith(t, EmitFields)
          \/ PkgRLock(t)
          \/ PkgRead(t)
          \/ PkgRUnlock(t)
          \/ PkgEmit(t)
          \/ PkgReturn(t)
          \/ WithRun(t)
          \/ WithReturn(t)

SpecReplace == Init /\ [][NextReplace]_vars

\* ------------------------------------------------------------------ claims

\* the calls that have ended
Completed == ncalls - Cardinality({t \in Threads : pc[t] # "idle"})

\* t is about to return from InitGlobal: frame[t] holds its result
InitReturning(t) == pc[t] = "init_unlock"

\* C1: when several goroutines call InitGlobal concurrently with a valid
\* configuration from the Uninitialized state, every call returns nil or
\* ErrAlreadyInitialized, exactly one of them returns nil and all the others
\* return ErrAlreadyInitialized.
C1_ExactlyOneInitSucceeds ==
    /\ successCount <= 1
    /\ Completed >= 1 => successCount = 1
    /\ \A t \in Threads :
          InitReturning(t) =>
             /\ frame[t].err \in {NilErr, ErrAlreadyInitialized}
             /\ frame[t].err = NilErr => successCount = 0
             /\ frame[t].err = ErrAlreadyInitialized => successCount = 1

C1_Witness ==
    \E t, u \in Threads :
        /\ t # u
        /\ InitReturning(t)
        /\ frame[t].err = ErrAlreadyInitialized
        /\ pc[u] = "init_lock"
        /\ successCount = 1

\* C2 (as claimed): over a whole run of InitGlobal, InitFromEnv,
\* InitWithDefaults, ReplaceGlobal, Get and TryGet calls with any arguments,
\* at most one InitGlobal call returns nil.
C2_AtMostOneInitSuccess == successCount <= 1

\* C3: an InitGlobal call that finds the logger initialized returns
\* ErrAlreadyInitialized, whatever its configuration, and leaves the stored
\* handle as it found it.
C3_SecondInitLeavesHandle ==
    \A t \in Threads :
        (InitReturning(t) /\ frame[t].seen # Nil) =>
            /\ frame[t].err = ErrAlreadyInitialized
            /\ globalLogger = frame[t].seen
            /\ frame[t].val = Nil

C3_Witness ==
    \E t \in Threads :
        /\ InitReturning(t)
        /\ frame[t].entry = "InitGlobal"
        /\ frame[t].cfg \in ValidConfigs
        /\ frame[t].seen # Nil
        /\ heap[frame[t].seen] # buildLogger(frame[t].cfg).logger
        /\ globalLogger = frame[t].seen

\* C4: an InitGlobal call that finds the logger uninitialized and has a
\* configuration that fails validation returns an error that is
\* ErrInvalidConfig and leaves the logger uninitialized; one that finds it
\* uninitialized and has a valid configuration succeeds.
C4_InvalidConfigLeavesUninitialized ==
    \A t \in Threads :
        (InitReturning(t) /\ frame[t].seen = Nil) =>
            IF validateConfig(frame[t].cfg) # NilErr
            THEN /\ ErrorsIs(frame[t].err, ErrInvalidConfig)
                 /\ globalLogger = Nil
                 /\ TryGetResult(globalLogger).err = ErrNotInitialized
            ELSE /\ frame[t].err = NilErr
                 /\ globalLogger = frame[t].val
                 /\ globalLogger # Nil

C4_Witness ==
    \E t \in Threads :
        /\ InitReturning(t)
        /\ frame[t].seen = Nil
        /\ frame[t].cfg \in InvalidConfigs
        /\ ErrorsIs(frame[t].err, ErrInvalidConfig)
        /\ globalLogger = Nil

\* C5: InitGlobal looks at the stored handle before it validates: when the
\* logger is initialized a call with an invalid configuration goes from the
\* check straight to its return with ErrAlreadyInitialized, which is not
\* ErrInvalidConfig, and neither validates nor builds anything.
C5_CheckBeforeValidate ==
    [][\A t \in Threads :
          (/\ pc[t] = "init_check"
           /\ globalLogger # Nil
           /\ validateConfig(frame[t].cfg) # NilErr
           /\ pc'[t] # pc[t])
          => /\ pc'[t] = "init_unlock"
             /\ frame'[t].err = ErrAlreadyInitialized
             /\ ~ErrorsIs(frame'[t].err, ErrInvalidConfig)
             /\ heap' = heap
             /\ globalLogger' = globalLogger]_vars

C5_Witness ==
    \E t \in Threads :
        /\ InitReturning(t)
        /\ frame[t].seen # Nil
        /\ frame[t].cfg \in InvalidConfigs
        /\ frame[t].err = ErrAlreadyInitialized

\* C6: while the logger is uninitialized Get panics with ErrNotInitialized
\* as the panic value, and TryGet never panics and returns a nil handle with
\* ErrNotInitialized.
C6_GetPanicsTryGetReturns ==
    \A t \in Threads :
        /\ (pc[t] = "get_runlock" /\ globalLogger = Nil) =>
              /\ frame[t].kind = "panic"
              /\ frame[t].err = ErrNotInitialized
              /\ frame[t].val = Nil
        /\ pc[t] = "try_runlock" => frame[t].kind = "return"
        /\ (pc[t] = "try_runlock" /\ globalLogger = Nil) =>
              /\ frame[t].err = ErrNotInitialized
              /\ frame[t].val = Nil

C6_Witness ==
    \E t, u \in Threads :
        /\ pc[t] = "get_runlock"
        /\ frame[t].kind = "panic"
        /\ pc[u] = "try_runlock"
        /\ frame[u].err = ErrNotInitialized
        /\ globalLogger = Nil

\* C7: once an InitGlobal call has succeeded, and as long as ReplaceGlobal
\* has not been called, every Get and every TryGet returns the handle that
\* InitGlobal stored.
C7_SingletonIdentity ==
    \A t \in Threads :
        (/\ pc[t] \in {"get_runlock", "try_runlock"}
         /\ successCount >= 1
         /\ replaceCalls = 0)
        => /\ frame[t].kind = "return"
           /\ frame[t].err = NilErr
           /\ frame[t].val = lastInit
           /\ lastInit # Nil

C7_Witness ==
    \E t, u \in Threads :
        /\ pc[t] = "get_runlock"
        /\ pc[u] = "try_runlock"
        /\ successCount = 1
        /\ replaceCalls = 0
        /\ frame[t].val = lastInit
        /\ frame[u].val = lastInit
        /\ lastInit # Nil

\* C8: a Get or TryGet never runs inside a write of InitGlobal or
\* ReplaceGlobal: no reader holds the lock together with a writer, what a
\* reader has read is still the stored handle when it returns, Get either
\* panics with ErrNotInitialized or returns a built, non-nil handle, and
\* TryGet returns either a built, non-nil handle and no error or a nil handle
\* and ErrNotInitialized.
C8_NoIntermediateState ==
    /\ mu.writer # 0 => mu.readers = {}
    /\ \A t \in Threads :
          pc[t] \in {"get_runlock", "try_runlock"} =>
             /\ t \in mu.readers
             /\ frame[t].seen = globalLogger
             /\ \/ /\ frame[t].val \in 1..Len(heap)
                   /\ frame[t].val = globalLogger
                   /\ frame[t].err = NilErr
                   /\ frame[t].kind = "return"
                \/ /\ frame[t].val = Nil
                   /\ frame[t].err = ErrNotInitialized
                   /\ frame[t].kind =
                         IF pc[t] = "get_runlock" THEN "panic" ELSE "return"

C8_Witness ==
    \E t, u \in Threads :
        /\ pc[t] \in {"get_runlock", "try_runlock"}
        /\ frame[t].val # Nil
        /\ pc[u] \in {"init_lock", "rep_lock"}

\* C9 (as claimed): once an InitGlobal call has succeeded, no later Get
\* panics and no later TryGet returns ErrNotInitialized, whatever public
\* calls are made in between.
C9_StaysInitialized ==
    successCount >= 1 =>
        \A t \in Threads :
            /\ pc[t] = "get_runlock" => frame[t].kind # "panic"
            /\ pc[t] = "try_runlock" => frame[t].err # ErrNotInitialized

\* C10 (as claimed): the error InitGlobal returns for a configuration that
\* fails validation is, for errors.Is, both ErrInvalidConfig and the
\* sentinel of the first failing field.
C10_InvalidConfigKeepsCause ==
    \A t \in Threads :
        (/\ InitReturning(t)
         /\ frame[t].seen = Nil
         /\ validateConfig(frame[t].cfg) # NilErr)
        => /\ ErrorsIs(frame[t].err, ErrInvalidConfig)
           /\ \A s \in {ErrInvalidLogLevel, ErrInvalidEnvironment,
                        ErrMissingServiceName} :
                 ErrorsIs(validateConfig(frame[t].cfg), s)
                    => ErrorsIs(frame[t].err, s)

\* t is about to return from validateConfig: frame[t].err is its result
ValidateReturning(t) == pc[t] = "validate_return"

\* the level is written exactly as one of the four level constants
CanonicalLevel(l) ==
    l \in { <<"D","E","B","U","G">>, <<"I","N","F","O">>,
            <<"W","A","R","N">>, <<"E","R","R","O","R">> }

\* the environment is written exactly as one of the two constants
CanonicalEnvironment(e) ==
    e \in { <<"d","e","v","e","l","o","p","m","e","n","t">>,
            <<"p","r","o","d","u","c","t","i","o","n">> }

\* the name has a character that is not white space
NonBlank(n) == \E i \in 1..Len(n) : n[i] \notin {" ", "\t", "\n", "\r"}

\* the validation sentinels of package logger
ValidationSentinels ==
    {ErrInvalidLogLevel, ErrInvalidEnvironment, ErrMissingServiceName}

\* err is, for errors.Is, the sentinel s and none of the other two
OnlyKind(err, s) ==
    \A x \in ValidationSentinels : ErrorsIs(err, x) <=> x = s

\* C11: validateConfig checks level, environment and service name in that
\* order and reports the first failure only: an invalid level gives
\* ErrInvalidLogLevel whatever the other fields are, a valid level with an
\* invalid environment gives ErrInvalidEnvironment whatever the name is, and
\* ErrMissingServiceName is returned only when level and environment are valid.
C11_FirstFailureOnly ==
    \A t \in Threads :
        ValidateReturning(t) =>
            LET c == frame[t].cfg
                e == frame[t].err
            IN  /\ ~CanonicalLevel(c.Level) => OnlyKind(e, ErrInvalidLogLevel)
                /\ (CanonicalLevel(c.Level) /\ ~CanonicalEnvironment(c.Environment))
                      => OnlyKind(e, ErrInvalidEnvironment)
                /\ ErrorsIs(e, ErrMissingServiceName)
                      => /\ CanonicalLevel(c.Level)
                         /\ CanonicalEnvironment(c.Environment)
                         /\ ~NonBlank(c.ServiceName)
                         /\ OnlyKind(e, ErrMissingServiceName)

C11_Witness ==
    \E t \in Threads :
        /\ ValidateReturning(t)
        /\ ~CanonicalLevel(frame[t].cfg.Level)
        /\ ~CanonicalEnvironment(frame[t].cfg.Environment)
        /\ ~NonBlank(frame[t].cfg.ServiceName)
        /\ ErrorsIs(frame[t].err, ErrInvalidLogLevel)

\* C12: validateConfig returns nil exactly when the level is one of DEBUG,
\* INFO, WARN, ERROR, the environment is development or production and the
\* service name is not empty once trimmed; and for every such configuration
\* InitGlobal, called while the logger is uninitialized, builds the logger,
\* stores it and returns nil.
C12_ValidIffCanonical ==
    \A t \in Threads :
        LET c == frame[t].cfg
            wellFormed == /\ CanonicalLevel(c.Level)
                          /\ CanonicalEnvironment(c.Environment)
                          /\ NonBlank(c.ServiceName)
        IN  /\ ValidateReturning(t) => (frame[t].err = NilErr <=> wellFormed)
            /\ (InitReturning(t) /\ frame[t].seen = Nil /\ wellFormed)
                  => /\ frame[t].err = NilErr
                     /\ frame[t].val # Nil
                     /\ globalLogger = frame[t].val
                     /\ heap[frame[t].val].fields =
                            << [key |-> "service", value |-> c.ServiceName] >>

C12_Witness ==
    \E t \in Threads :
        /\ InitReturning(t)
        /\ frame[t].seen = Nil
        /\ frame[t].cfg = LoggerConfig(LogLevelError, EnvProduction,
                                       <<" ", "A", " ", "b", "\t">>)
        /\ frame[t].err = NilErr
        /\ globalLogger = frame[t].val

\* t is about to return from config.Load: frame[t] holds its result and env
\* is the process environment the loader read after the file step
LoadReturning(t) == pc[t] = "load_return"

\* a and b are the same character or the two cases of one letter
SameLetter(a, b) ==
    \/ a = b
    \/ \E i \in 1..Len(LowerChars) : {a, b} = {LowerChars[i], UpperChars[i]}

\* x differs from c by letter case at most
CaseVariantOf(x, c) ==
    /\ Len(x) = Len(c)
    /\ \A i \in 1..Len(c) : SameLetter(x[i], c[i])

LevelVariant(l) ==
    \E c \in {LogLevelDebug, LogLevelInfo, LogLevelWarn, LogLevelError} :
        CaseVariantOf(l, c)

EnvironmentVariant(e) ==
    \E c \in {EnvDevelopment, EnvProduction} : CaseVariantOf(e, c)

\* the file step of Load fails: it reads a .env file that cannot be loaded
FileStepFails ==
    /\ dotenv.state = "unreadable"
    /\ ~CaseVariantOf(Getenv(env, "APP_ENV"), EnvProduction)

\* the first of LOG_LEVEL, APP_ENV, APP_NAME that is unset or empty
FirstMissing ==
    IF Getenv(env, "LOG_LEVEL") = <<>> THEN "LOG_LEVEL"
    ELSE IF Getenv(env, "APP_ENV") = <<>> THEN "APP_ENV"
    ELSE IF Getenv(env, "APP_NAME") = <<>> THEN "APP_NAME"
    ELSE "none"

\* the message of err names the variable k
NamesVariable(err, k) == \E i \in 1..Len(err.text) : err.text[i] = k

\* C13: the validators compare as written, so a level or an environment
\* that differs from a constant by letter case only is rejected by
\* validation; the loader upper-cases LOG_LEVEL and lower-cases APP_ENV
\* first, so Load accepts every such variant and returns the constant.
C13_NormalizeAtLoadOnly ==
    \A t \in Threads :
        /\ ValidateReturning(t) =>
              LET c == frame[t].cfg IN
              /\ (LevelVariant(c.Level) /\ ~CanonicalLevel(c.Level))
                    => ErrorsIs(frame[t].err, ErrInvalidLogLevel)
              /\ (/\ CanonicalLevel(c.Level)
                  /\ EnvironmentVariant(c.Environment)
                  /\ ~CanonicalEnvironment(c.Environment))
                    => ErrorsIs(frame[t].err, ErrInvalidEnvironment)
        /\ (/\ LoadReturning(t)
            /\ ~FileStepFails
            /\ LevelVariant(Getenv(env, "LOG_LEVEL"))
            /\ EnvironmentVariant(Getenv(env, "APP_ENV"))
            /\ NonBlank(Getenv(env, "APP_NAME")))
              => /\ frame[t].err = NilErr
                 /\ CanonicalLevel(frame[t].cfg.Level)
                 /\ CaseVariantOf(Getenv(env, "LOG_LEVEL"), frame[t].cfg.Level)
                 /\ CanonicalEnvironment(frame[t].cfg.Environment)
                 /\ CaseVariantOf(Getenv(env, "APP_ENV"),
                                  frame[t].cfg.Environment)

C13_Witness ==
    \E t \in Threads :
        /\ LoadReturning(t)
        /\ Getenv(env, "LOG_LEVEL") = <<"d","e","b","u","g">>
        /\ Getenv(env, "APP_ENV") = <<"P","R","O","D","U","C","T","I","O","N">>
        /\ frame[t].err = NilErr
        /\ frame[t].cfg.Level = LogLevelDebug
        /\ frame[t].cfg.Environment = EnvProduction

\* C14: when Load succeeds the ServiceName it returns is the value of
\* APP_NAME character for character, the Level is LOG_LEVEL in upper case
\* and the Environment is APP_ENV in lower case.
C14_LoadKeepsServiceName ==
    \A t \in Threads :
        (LoadReturning(t) /\ frame[t].err = NilErr)
        => /\ frame[t].cfg.ServiceName = Getenv(env, "APP_NAME")
           /\ frame[t].cfg.Level = ToUpper(Getenv(env, "LOG_LEVEL"))
           /\ frame[t].cfg.Environment = ToLower(Getenv(env, "APP_ENV"))

C14_Witness ==
    \E t \in Threads :
        /\ LoadReturning(t)
        /\ frame[t].err = NilErr
        /\ frame[t].cfg.ServiceName = <<" ", "A", " ", "b", "\t">>
        /\ frame[t].cfg.Level # Getenv(env, "LOG_LEVEL")
        /\ frame[t].cfg.Environment # Getenv(env, "APP_ENV")

\* C15: when, after the file step, one of LOG_LEVEL, APP_ENV, APP_NAME is
\* unset or empty, Load fails with ErrMissingRequiredEnvVar and its message
\* names the first missing variable in that order and no other; a variable
\* set to the empty string counts as missing like an unset one; and Load
\* reports a missing variable in no other case.
C15_FirstMissingVariable ==
    \A t \in Threads :
        (LoadReturning(t) /\ ~FileStepFails)
        => /\ FirstMissing # "none"
                => /\ ErrorsIs(frame[t].err, ErrMissingRequiredEnvVar)
                   /\ \A k \in EnvKeys :
                         NamesVariable(frame[t].err, k) <=> k = FirstMissing
           /\ ErrorsIs(frame[t].err, ErrMissingRequiredEnvVar)
                => FirstMissing # "none"

C15_Witness ==
    \E t \in Threads :
        /\ LoadReturning(t)
        /\ Getenv(env, "LOG_LEVEL") # <<>>
        /\ env["APP_ENV"] = SetTo(<<>>)
        /\ env["APP_NAME"] = Unset
        /\ ErrorsIs(frame[t].err, ErrMissingRequiredEnvVar)
        /\ NamesVariable(frame[t].err, "APP_ENV")

\* C16 (as claimed): when the three variables are set and the normalized
\* values fail validation, the error of Load, and the error InitFromEnv
\* returns for it, is ErrInvalidLogLevel for a bad level,
\* ErrInvalidEnvironment for a bad environment and ErrMissingServiceName
\* for a name of white space only.
C16_LoadErrorKinds ==
    \A t \in Threads :
        (/\ pc[t] \in {"load_return", "env_return"}
         /\ ~FileStepFails
         /\ FirstMissing = "none")
        => /\ ~LevelVariant(Getenv(env, "LOG_LEVEL"))
                => ErrorsIs(frame[t].err, ErrInvalidLogLevel)
           /\ (/\ LevelVariant(Getenv(env, "LOG_LEVEL"))
               /\ ~EnvironmentVariant(Getenv(env, "APP_ENV")))
                => ErrorsIs(frame[t].err, ErrInvalidEnvironment)
           /\ (/\ LevelVariant(Getenv(env, "LOG_LEVEL"))
               /\ EnvironmentVariant(Getenv(env, "APP_ENV"))
               /\ ~NonBlank(Getenv(env, "APP_NAME")))
                => ErrorsIs(frame[t].err, ErrMissingServiceName)

\* the step in which t calls config.Load: env is the process environment
\* Load starts with, env' the one it leaves, frame'[t] its result
LoadStep(t) == pc[t] = "idle" /\ pc'[t] = "load_return"

\* err is the error of the file step
IsFileError(err) == NamesVariable(err, "error loading .env file")

\* C17: when APP_ENV, as the process environment has it when Load starts,
\* is production in any letter case, Load does not consult the .env file,
\* whatever its state, and leaves the process environment as it was.
C17_ProductionSkipsFile ==
    [][\A t \in Threads :
          (LoadStep(t) /\ CaseVariantOf(Getenv(env, "APP_ENV"), EnvProduction))
          => /\ ~loadEnvFile(env, dotenv).consulted
             /\ env' = env
             /\ ~IsFileError(frame'[t].err)]_vars

C17_Witness ==
    \E t \in Threads :
        /\ LoadReturning(t)
        /\ Getenv(env, "APP_ENV") = <<"P","R","O","D","U","C","T","I","O","N">>
        /\ dotenv.state = "ok"
        /\ dotenv.vars["LOG_LEVEL"].set
        /\ ~env["LOG_LEVEL"].set
        /\ ErrorsIs(frame[t].err, ErrMissingRequiredEnvVar)

\* C18 (as claimed): a configuration returned by Load whose Environment is
\* production has its three values from the process environment Load
\* started with, so Load returns the same configuration for every content
\* of the .env file.
C18_ProductionIgnoresFile ==
    [][\A t \in Threads :
          (/\ LoadStep(t)
           /\ frame'[t].err = NilErr
           /\ frame'[t].cfg.Environment = EnvProduction)
          => /\ CaseVariantOf(Getenv(env, "LOG_LEVEL"), frame'[t].cfg.Level)
             /\ CaseVariantOf(Getenv(env, "APP_ENV"), frame'[t].cfg.Environment)
             /\ Getenv(env, "APP_NAME") = frame'[t].cfg.ServiceName
             /\ \A f \in LoadDotenvFiles :
                   /\ Load(env, f).err = NilErr
                   /\ Load(env, f).cfg = frame'[t].cfg]_vars

\* C19: when APP_ENV is unset or is not production and there is no .env
\* file, the file step reports no error and changes nothing: Load goes on
\* with the process environment as it was and returns what the three
\* process variables give.
C19_MissingFileIsNoError ==
    [][\A t \in Threads :
          (/\ LoadStep(t)
           /\ ~CaseVariantOf(Getenv(env, "APP_ENV"), EnvProduction)
           /\ dotenv.state = "absent")
          => /\ ~IsFileError(frame'[t].err)
             /\ env' = env
             /\ frame'[t].err = loadLoggerConfig(env).err
             /\ frame'[t].cfg = loadLoggerConfig(env).cfg
             /\ (/\ LevelVariant(Getenv(env, "LOG_LEVEL"))
                 /\ EnvironmentVariant(Getenv(env, "APP_ENV"))
                 /\ NonBlank(Getenv(env, "APP_NAME")))
                   => frame'[t].err = NilErr]_vars

C19_Witness ==
    \E t \in Threads :
        /\ LoadReturning(t)
        /\ dotenv.state = "absent"
        /\ Getenv(env, "APP_ENV") = <<"D","e","V","e","L","o","P","m","E","n","T">>
        /\ frame[t].err = NilErr
        /\ frame[t].cfg.Environment = EnvDevelopment

\* t is about to return from (*Logger).Sync: frame[t].flush is what the zap
\* logger answered, frame[t].err what Sync returns
SyncReturning(t) == pc[t] = "sync_return"

\* err is, or wraps, one of EINVAL, ENOTTY, EBADF
HasIgnorableCause(err) ==
    \E i \in 1..Len(err.chain) :
        err.chain[i] \in {"syscall.EINVAL", "syscall.ENOTTY", "syscall.EBADF"}

\* C20: Sync on a logger returns nil when the flush succeeds or fails with
\* EINVAL, ENOTTY or EBADF as its cause, and an error that is ErrSyncFailed
\* for every other flush failure; a failure with one of the three causes is
\* never returned as ErrSyncFailed.
C20_SyncIgnoresBenignErrors ==
    \A t \in Threads :
        SyncReturning(t) =>
            LET f == frame[t].flush IN
            /\ (f = NilErr \/ HasIgnorableCause(f)) => frame[t].err = NilErr
            /\ (f # NilErr /\ ~HasIgnorableCause(f))
                  => ErrorsIs(frame[t].err, ErrSyncFailed)
            /\ HasIgnorableCause(f) => ~ErrorsIs(frame[t].err, ErrSyncFailed)

C20_Witness ==
    \E t \in Threads :
        /\ SyncReturning(t)
        /\ frame[t].flush = ErrorfPrefixWrap("sync /dev/stdout", EBADF)
        /\ frame[t].err = NilErr

\* t is about to return from SyncWithTimeout: frame[t].err is its result
SwtReturning(t) == pc[t] = "swt_return"

\* u is the goroutine the SyncWithTimeout call of t started
GoroutineOf(u, t) ==
    /\ frame[u].parent = t
    /\ frame[u].callid = frame[t].callid
    /\ pc[u] # "idle"

\* what Sync returns for what the goroutine read and flushed: the
\* package-level Sync when pkg, the method otherwise
SyncResultFor(d, pkg) ==
    IF pkg /\ d.seen = Nil THEN ErrNotInitialized ELSE LoggerSync(d.flush)

\* C21: when the timer of SyncWithTimeout fires while the flush has not
\* delivered its result, the call returns a timeout error, which is not
\* nil, not ErrSyncFailed and not ErrNotInitialized; the goroutine that
\* flushes is left as it is, by the timeout and by the return of the call,
\* and goes on running.
C21_TimeoutLeavesFlushRunning ==
    [][\A t \in Threads :
          /\ (/\ pc[t] = "swt_select"
              /\ ~frame[t].done.full
              /\ pc'[t] = "swt_return")
               => /\ frame'[t].err = TimeoutError
                  /\ frame'[t].err # NilErr
                  /\ ~ErrorsIs(frame'[t].err, ErrSyncFailed)
                  /\ ~ErrorsIs(frame'[t].err, ErrNotInitialized)
                  /\ \E u \in Threads :
                        /\ GoroutineOf(u, t)
                        /\ pc'[u] = pc[u]
                        /\ frame'[u] = frame[u]
          /\ (SwtReturning(t) /\ pc'[t] = "idle")
               => \A u \in Threads :
                     GoroutineOf(u, t) => pc'[u] = pc[u] /\ frame'[u] = frame[u]
      ]_vars

\* the flush of a SyncWithTimeout call that has timed out and returned
\* completes afterwards
C21_Witness ==
    \E u \in Threads :
        /\ pc[u] = "psync_return"
        /\ frame[u].parent # 0
        /\ frame[u].flushed
        /\ pc[frame[u].parent] = "idle"

\* C22: when the timer cannot fire before the flush is over,
\* SyncWithTimeout never returns the timeout error, and whenever it returns
\* something else that is the error of the Sync run in its goroutine: what
\* Sync returns for the same logger and the same flush outcome, and, for
\* the package-level form, ErrNotInitialized when there is no logger.
C22_LargeTimeoutIsSync ==
    \A t \in Threads :
        SwtReturning(t) =>
            /\ ~frame[t].timer => frame[t].err # TimeoutError
            /\ frame[t].err # TimeoutError
                 => /\ frame[t].done.full
                    /\ frame[t].err =
                         SyncResultFor(frame[t].done,
                                       frame[t].entry = "SyncWithTimeout")

C22_Witness ==
    \E t \in Threads :
        /\ SwtReturning(t)
        /\ ~frame[t].timer
        /\ frame[t].entry = "Logger.SyncWithTimeout"
        /\ frame[t].done.flush = EIO
        /\ ErrorsIs(frame[t].err, ErrSyncFailed)

\* C23: Sync, called when there is no logger, returns ErrNotInitialized: it
\* does not panic and does not sync anything; SyncWithTimeout returns the
\* same, from a goroutine that synced nothing, unless its timer fires first.
C23_SyncUninitialized ==
    \A t \in Threads :
        /\ (/\ pc[t] \in {"psync_flush", "psync_return"}
            /\ frame[t].entry = "Sync"
            /\ frame[t].seen = Nil)
             => /\ pc[t] = "psync_return"
                /\ frame[t].err = ErrNotInitialized
                /\ frame[t].kind = "return"
                /\ ~frame[t].flushed
        /\ (/\ SwtReturning(t)
            /\ frame[t].entry = "SyncWithTimeout"
            /\ frame[t].err # TimeoutError
            /\ frame[t].done.seen = Nil)
             => /\ frame[t].err = ErrNotInitialized
                /\ frame[t].kind = "return"
                /\ ~frame[t].done.flushed

C23_Witness ==
    \E t \in Threads :
        /\ SwtReturning(t)
        /\ frame[t].entry = "SyncWithTimeout"
        /\ frame[t].done.full
        /\ frame[t].done.seen = Nil
        /\ frame[t].err = ErrNotInitialized
        /\ globalLogger = Nil

\* t is in a package-level Debug, Info, Warn, Error or With, after the
\* read of the global handle by Get
AfterPkgGet(t) ==
    /\ frame[t].entry \in EmitFunctions \cup {"With"}
    /\ pc[t] \in {"pkg_runlock", "pkg_emit", "pkg_return", "with_run",
                  "with_return"}

\* C24: a package-level Debug, Info, Warn, Error or With whose Get found the
\* package Uninitialized panics with ErrNotInitialized, never reaches the
\* method of a handle, and so emits no entry and derives no handle; one
\* whose Get found it Initialized does not panic.
C24_PackageFunctionsPanicUninitialized ==
    \A t \in Threads :
        AfterPkgGet(t) =>
            /\ frame[t].seen = Nil =>
                   /\ frame[t].kind = "panic"
                   /\ frame[t].err = ErrNotInitialized
                   /\ pc[t] \in {"pkg_runlock", "pkg_return"}
                   /\ frame[t].emitted = << >>
                   /\ frame[t].val = Nil
            /\ frame[t].seen # Nil =>
                   /\ frame[t].kind = "return"
                   /\ frame[t].err = NilErr

\* one goroutine's Info panics on the Uninitialized package while, after an
\* InitGlobal, another goroutine's Error has emitted an entry
C24_Witness ==
    \E t, u \in Threads :
        /\ pc[t] = "pkg_return"
        /\ frame[t].entry = "Info"
        /\ frame[t].seen = Nil
        /\ frame[t].kind = "panic"
        /\ pc[u] = "pkg_return"
        /\ frame[u].entry = "Error"
        /\ frame[u].seen # Nil
        /\ frame[u].kind = "return"
        /\ frame[u].emitted # << >>

\* the step in which a With, of the package or of a handle, makes its
\* derived handle
WithStep(t) == pc[t] = "with_run" /\ pc'[t] = "with_return"

\* C25: the handle With returns is an instance that did not exist before,
\* so distinct from its parent; its fields are the parent's fields followed
\* by the given fields; no step changes the fields of a handle that exists,
\* the parent included. The parent is any handle: the global one, one a
\* caller holds, one derived before.
C25_WithDerives ==
    [][ /\ \A h \in 1..Len(heap) : h <= Len(heap') /\ heap'[h] = heap[h]
        /\ \A t \in Threads :
              WithStep(t) =>
                  /\ frame'[t].val \notin 1..Len(heap)
                  /\ frame'[t].val # frame'[t].arg
                  /\ frame'[t].val \in 1..Len(heap')
                  /\ frame'[t].arg = frame[t].arg
                  /\ heap'[frame'[t].val].fields =
                         heap[frame[t].arg].fields \o frame[t].given
                  /\ heap'[frame'[t].arg].fields = heap[frame[t].arg].fields
      ]_vars

\* a handle derived from a derived handle of the global one: its fields are
\* the service field, the fields of the first With, the fields of the second
C25_Witness ==
    \E t \in Threads :
        /\ pc[t] = "with_return"
        /\ frame[t].entry = "Logger.With"
        /\ frame[t].arg # globalLogger
        /\ globalLogger # Nil
        /\ Len(heap[frame[t].arg].fields) > Len(heap[globalLogger].fields)
        /\ frame[t].given # << >>
        /\ heap[frame[t].val].fields =
               heap[frame[t].arg].fields \o frame[t].given
        /\ Len(heap[frame[t].val].fields) > Len(heap[frame[t].arg].fields)

\* the fields of an entry have one of key k
HasKey(fields, k) == \E i \in 1..Len(fields) : fields[i].key = k

\* C26: every entry emitted through the global handle InitGlobal installed,
\* or through a handle derived from it, has a field "service" and a field
\* "environment".
C26_TwoPermanentFields ==
    \A t \in Threads :
        \A i \in 1..Len(frame[t].emitted) :
            /\ HasKey(frame[t].emitted[i].fields, "service")
            /\ HasKey(frame[t].emitted[i].fields, "environment")

\* no ReplaceGlobal is between its call and its return
NoReplaceRunning ==
    \A t \in Threads : pc[t] \notin {"rep_lock", "rep_store", "rep_unlock"}

\* what C27 says of the store, the return and the reads: the store of
\* ReplaceGlobal(h) sets the handle to h whatever it was and whatever h is;
\* the handle is h when ReplaceGlobal(h) returns; a Get or TryGet reads,
\* with no writer holding the lock, the handle stored at that time
ReplaceStoresAndReadsSee ==
    \A t \in Threads :
        /\ (pc[t] = "rep_store" /\ pc'[t] # "rep_store") =>
               globalLogger' = frame[t].arg
        /\ (pc[t] = "rep_unlock" /\ pc'[t] # "rep_unlock") =>
               globalLogger = frame[t].arg /\ globalLogger' = frame[t].arg
        /\ (pc[t] \in {"get_read", "try_read"} /\ pc'[t] # pc[t]) =>
               /\ mu.writer = 0
               /\ frame'[t].seen = globalLogger
               /\ frame'[t].val = globalLogger

\* C27: ReplaceGlobal(h) stores h unconditionally, and once a
\* ReplaceGlobal has returned the stored handle changes only by the store of
\* another ReplaceGlobal, so that every Get or TryGet until then yields h.
C27_ReplaceHoldsUntilNextReplace ==
    [][ /\ ReplaceStoresAndReadsSee
        /\ (replaceCalls > 0 /\ NoReplaceRunning) =>
               globalLogger' = globalLogger
      ]_vars

\* what InitGlobal(cfg) returns when it finds the handle g stored
InitGlobalError(g, cfg) ==
    IF g # Nil THEN ErrAlreadyInitialized
    ELSE IF validateConfig(cfg) # NilErr
         THEN InvalidConfigError(validateConfig(cfg))
    ELSE IF buildLogger(cfg).err # NilErr
         THEN ErrorfPrefixWrap("failed to build logger", buildLogger(cfg).err)
    ELSE NilErr

\* t is in InitFromEnv, called directly or by MustInitFromEnv
InInitFromEnv(t) == frame[t].entry \in {"InitFromEnv", "MustInitFromEnv"}

\* C28: InitFromEnv calls Load first. When Load fails InitFromEnv goes
\* straight to its return with an error that has the chain of the load
\* error and its text after "failed to load configuration", never enters
\* InitGlobal, and leaves the handle and the loggers as they were. When
\* Load succeeds InitFromEnv enters InitGlobal with the loaded configuration
\* and returns what InitGlobal returns for it: ErrAlreadyInitialized, with
\* the handle kept, when a handle is stored, and otherwise nil with the
\* logger built from the loaded configuration stored.
C28_InitFromEnvComposes ==
    [][\A t \in Threads :
          InInitFromEnv(t) =>
            /\ (pc[t] = "env_load" /\ pc'[t] # "env_load") =>
                  LET r == Load(env, dotenv) IN
                  IF r.err # NilErr
                  THEN /\ pc'[t] = "env_return"
                       /\ frame'[t].err # NilErr
                       /\ frame'[t].err.chain = r.err.chain
                       /\ frame'[t].err.text =
                              <<"failed to load configuration">> \o r.err.text
                       /\ globalLogger' = globalLogger
                       /\ heap' = heap
                  ELSE /\ pc'[t] = "init_lock"
                       /\ frame'[t].cfg = r.cfg
                       /\ frame'[t].err = NilErr
            /\ pc[t] = "env_return" =>
                  /\ pc'[t] \in {"env_return", "idle", "must_check"}
                  /\ globalLogger' = globalLogger
                  /\ frame[t].seen = Nil /\ frame[t].val = Nil
            /\ pc[t] = "init_unlock" =>
                  /\ frame[t].err = InitGlobalError(frame[t].seen, frame[t].cfg)
                  /\ frame[t].seen # Nil =>
                        /\ frame[t].err = ErrAlreadyInitialized
                        /\ globalLogger = frame[t].seen
                  /\ frame[t].seen = Nil =>
                        /\ frame[t].err = NilErr
                        /\ globalLogger = frame[t].val
                        /\ heap[frame[t].val] = buildLogger(frame[t].cfg).logger
      ]_vars

\* an InitFromEnv whose Load succeeded returns ErrAlreadyInitialized
C28_Witness ==
    \E t \in Threads :
        /\ pc[t] = "init_unlock"
        /\ frame[t].entry = "InitFromEnv"
        /\ frame[t].seen # Nil
        /\ frame[t].err = ErrAlreadyInitialized
        /\ validateConfig(frame[t].cfg) = NilErr

\* t is about to leave MustInitFromEnv: frame[t] holds the result of its
\* InitFromEnv and whether it panics
MustReturning(t) == pc[t] = "must_return"

\* C29: MustInitFromEnv panics exactly when its InitFromEnv returned an
\* error, which is ErrAlreadyInitialized or the wrapped error of Load, and
\* the string it panics with is "failed to initialize logger from
\* environment" followed by the text of that error. When it returns
\* normally a handle is stored, the one this call installed, and Get
\* returns it.
C29_MustPanicsIffError ==
    \A t \in Threads :
        MustReturning(t) =>
            /\ frame[t].kind = "panic" <=> frame[t].err # NilErr
            /\ frame[t].kind = "panic" =>
                  /\ frame[t].err.text # << >>
                  /\ frame[t].msg =
                         <<"failed to initialize logger from environment">>
                            \o frame[t].err.text
                  /\ \/ frame[t].err = ErrAlreadyInitialized /\ frame[t].seen # Nil
                     \/ /\ frame[t].err.text[1] = "failed to load configuration"
                        /\ frame[t].seen = Nil
                        /\ frame[t].val = Nil
            /\ frame[t].kind # "panic" =>
                  /\ frame[t].kind = "return"
                  /\ frame[t].msg = << >>
                  /\ globalLogger # Nil
                  /\ globalLogger = frame[t].val
                  /\ GetResult(globalLogger).kind = "return"
                  /\ GetResult(globalLogger).val = globalLogger

\* a MustInitFromEnv panics because the logger is initialized already
C29_Witness ==
    \E t \in Threads :
        /\ MustReturning(t)
        /\ frame[t].kind = "panic"
        /\ frame[t].err = ErrAlreadyInitialized
        /\ frame[t].msg = <<"failed to initialize logger from environment">>
                             \o ErrAlreadyInitialized.text
        /\ globalLogger # Nil

\* C30: InitWithDefaults calls InitGlobal with (INFO, development, "app"),
\* and no step of it changes or depends on the process environment: when no
\* handle is stored it returns nil and has stored an INFO console logger of
\* service "app", whatever the environment is; when one is stored it returns
\* ErrAlreadyInitialized and the handle stays.
C30_InitWithDefaults ==
    [][\A t \in Threads :
          frame[t].entry = "InitWithDefaults" =>
            /\ env' = env
            /\ frame[t].cfg =
                  LoggerConfig(LogLevelInfo, EnvDevelopment, <<"a","p","p">>)
            /\ pc[t] = "init_unlock" =>
                  /\ globalLogger' = globalLogger
                  /\ frame[t].seen = Nil =>
                        /\ frame[t].err = NilErr
                        /\ globalLogger = frame[t].val
                        /\ heap[frame[t].val] =
                              [level |-> ZapInfoLevel, encoder |-> "console",
                               fields |-> << [key |-> "service",
                                              value |-> <<"a","p","p">>] >>]
                  /\ frame[t].seen # Nil =>
                        /\ frame[t].err = ErrAlreadyInitialized
                        /\ globalLogger = frame[t].seen
      ]_vars

\* InitWithDefaults succeeds in a process whose environment Load rejects
C30_Witness ==
    \E t \in Threads :
        /\ pc[t] = "init_unlock"
        /\ frame[t].entry = "InitWithDefaults"
        /\ frame[t].seen = Nil
        /\ frame[t].err = NilErr
        /\ globalLogger = frame[t].val
        /\ Load(env, dotenv).err # NilErr

\* the place of a level or severity in the order DEBUG < INFO < WARN < ERROR
SeverityRank(name) ==
    CASE name = LogLevelDebug -> 1
      [] name = LogLevelInfo  -> 2
      [] name = LogLevelWarn  -> 3
      [] name = LogLevelError -> 4
      [] OTHER                -> 0

\* the severity a package-level emission function writes at
SeverityOf(fn) ==
    CASE fn = "Debug" -> LogLevelDebug
      [] fn = "Info"  -> LogLevelInfo
      [] fn = "Warn"  -> LogLevelWarn
      [] OTHER        -> LogLevelError

\* the level of the configuration the logger l was built from, kept by
\* buildLogger as the level of the core
ConfiguredRank(l) ==
    CHOOSE r \in 1..4 :
        \E cfg \in LevelConfigs :
            /\ SeverityRank(cfg.Level) = r
            /\ buildLogger(cfg).logger.level = l.level

\* C31: the handle InitGlobal installs for a configuration of level L is
\* the logger built for L, and a package-level emission at severity S that
\* finds that handle writes a record if and only if S >= L in the order
\* DEBUG < INFO < WARN < ERROR; the record has severity S.
C31_LevelIsThreshold ==
    [][\A t \in Threads :
          /\ (pc[t] = "init_store" /\ pc'[t] = "init_unlock") =>
                 /\ globalLogger' = frame'[t].val
                 /\ heap'[globalLogger'] = buildLogger(frame[t].cfg).logger
                 /\ SeverityRank(frame[t].cfg.Level) =
                       ConfiguredRank(heap'[globalLogger'])
          /\ (pc[t] = "pkg_return" /\ frame[t].entry \in EmitFunctions
                                   /\ frame[t].seen # Nil) =>
                 /\ frame[t].emitted # << >> <=>
                       SeverityRank(SeverityOf(frame[t].entry)) >=
                          ConfiguredRank(heap[frame[t].seen])
                 /\ \A i \in 1..Len(frame[t].emitted) :
                       frame[t].emitted[i].level = LevelOf(frame[t].entry)
      ]_vars

\* after InitGlobal with level WARN, a Warn has written a record while an
\* Info has written none
C31_Witness ==
    \E t, u \in Threads :
        /\ pc[t] = "pkg_return" /\ pc[u] = "pkg_return"
        /\ frame[t].seen # Nil /\ frame[u].seen = frame[t].seen
        /\ ConfiguredRank(heap[frame[t].seen]) = 3
        /\ frame[t].entry = "Warn" /\ frame[t].emitted # << >>
        /\ frame[u].entry = "Info" /\ frame[u].emitted = << >>

\* t is in WithCore or WithOTELCore
InWithCore(t) ==
    frame[t].entry \in {"Logger.WithCore", "Logger.WithOTELCore"}

\* the logger of handle h was made by WithCore or WithOTELCore, or by a
\* caller on a core of its own
OnOtherCore(hp, h) == hp[h].encoder \in {"custom", "tee"}

\* C32: WithCore and WithOTELCore return an instance that did not exist
\* before, so distinct from the receiver; the zap logger of the receiver and
\* of every other handle stays as it was; no step of either call changes
\* the global handle, so that Get returns after the call what it returned
\* before; and a logger on another core becomes global only by the store
\* of a ReplaceGlobal called with its handle.
C32_WithCoreLeavesReceiverAndGlobal ==
    [][ /\ \A t \in Threads :
              (InWithCore(t) /\ pc'[t] # pc[t]) =>
                  /\ globalLogger' = globalLogger
                  /\ GetResult(globalLogger') = GetResult(globalLogger)
                  /\ \A h \in 1..Len(heap) :
                        h <= Len(heap') /\ heap'[h] = heap[h]
                  /\ pc[t] = "core_run" =>
                        /\ frame'[t].val \notin 1..Len(heap)
                        /\ frame'[t].val # frame[t].arg
                        /\ frame'[t].val \in 1..Len(heap')
                        /\ heap'[frame'[t].val] = frame[t].built
        /\ (/\ globalLogger' # globalLogger
            /\ globalLogger' # Nil
            /\ OnOtherCore(heap', globalLogger')) =>
               \E t \in Threads :
                   /\ pc[t] = "rep_store"
                   /\ pc'[t] = "rep_unlock"
                   /\ frame[t].arg = globalLogger'
      ]_vars

\* WithOTELCore on the global handle has returned a new handle and the
\* global handle is still the receiver
C32_Witness ==
    \E t \in Threads :
        /\ pc[t] = "core_return"
        /\ frame[t].entry = "Logger.WithOTELCore"
        /\ frame[t].arg = globalLogger
        /\ frame[t].val # globalLogger
        /\ heap[frame[t].val].encoder = "tee"
        /\ heap[globalLogger].encoder # "tee"
        /\ GetResult(globalLogger).val = frame[t].arg

\* C33: when goroutines call InitGlobal concurrently from the Uninitialized
\* state with valid and invalid configurations, a call with an invalid
\* configuration never returns nil: it returns ErrAlreadyInitialized when it
\* takes the lock after the call that succeeded and ErrInvalidConfig when
\* it takes it before. A call with a valid configuration returns nil or
\* ErrAlreadyInitialized, and when one returns exactly one call has
\* succeeded, itself included, and the logger is initialized and stays so.
C33_MixedConcurrentInit ==
    /\ successCount <= 1
    /\ successCount = 1 => globalLogger # Nil /\ globalLogger = lastInit
    /\ \A t \in Threads :
          InitReturning(t) =>
             IF validateConfig(frame[t].cfg) # NilErr
             THEN /\ frame[t].err # NilErr
                  /\ frame[t].seen # Nil =>
                        /\ frame[t].err = ErrAlreadyInitialized
                        /\ successCount = 1
                  /\ frame[t].seen = Nil =>
                        /\ ErrorsIs(frame[t].err, ErrInvalidConfig)
                        /\ ~ErrorsIs(frame[t].err, ErrAlreadyInitialized)
                        /\ successCount = 0
                        /\ globalLogger = Nil
             ELSE /\ frame[t].err \in {NilErr, ErrAlreadyInitialized}
                  /\ frame[t].err = NilErr <=> frame[t].seen = Nil
                  /\ globalLogger # Nil
                  /\ successCount + (IF frame[t].err = NilErr THEN 1 ELSE 0) = 1

\* a call with an invalid configuration took the lock first and returns
\* ErrInvalidConfig while a call with a valid configuration waits for the
\* lock
C33_Witness ==
    \E t, u \in Threads :
        /\ t # u
        /\ InitReturning(t)
        /\ validateConfig(frame[t].cfg) # NilErr
        /\ ErrorsIs(frame[t].err, ErrInvalidConfig)
        /\ pc[u] = "init_lock"
        /\ validateConfig(frame[u].cfg) = NilErr
        /\ globalLogger = Nil

\* where a goroutine holds the lock for writing, and for reading
WriterPcs == {"init_check", "init_validate", "init_build", "init_store",
              "init_unlock", "rep_store", "rep_unlock"}
ReaderPcs == {"get_read", "get_runlock", "try_read", "try_runlock"}

\* where a goroutine waits for the lock
LockWaitPcs == {"init_lock", "rep_lock", "get_rlock", "try_rlock"}

\* where a goroutine is in InitFromEnv before it calls InitGlobal
BeforeInitGlobalPcs == {"env_load", "env_return"}

\* the next step of goroutine t in InitGlobal, Get, TryGet or ReplaceGlobal
StepOf(t) ==
    \/ InitGlobalSteps(t)
    \/ GetRLock(t)
    \/ GetRead(t)
    \/ GetRUnlock(t)
    \/ TryGetRLock(t)
    \/ TryGetRead(t)
    \/ TryGetRUnlock(t)
    \/ ReplaceLock(t)
    \/ ReplaceStore(t)
    \/ ReplaceUnlock(t)

\* C34: the lock is held by exactly the goroutines that are between the
\* lock and the unlock of InitGlobal, ReplaceGlobal, Get or TryGet, so it is
\* free once they have left by any path, the panic of Get and the errors of
\* InitGlobal included. A goroutine in one of these calls can take its next
\* step unless it waits for the lock, and then a goroutine that holds the
\* lock can take its next step: no state is a deadlock.
C34_LockReleasedOnEveryPath ==
    /\ \A t \in Threads : mu.writer = t <=> pc[t] \in WriterPcs
    /\ mu.writer \in Threads \cup {0}
    /\ mu.readers = {t \in Threads : pc[t] \in ReaderPcs}
    /\ mu.writer # 0 => mu.readers = {}
    /\ \A t \in Threads :
          pc[t] \notin {"idle"} \cup BeforeInitGlobalPcs =>
             \/ ENABLED StepOf(t)
             \/ /\ pc[t] \in LockWaitPcs
                /\ \E u \in Threads \ {t} :
                      /\ pc[u] \in WriterPcs \cup ReaderPcs
                      /\ ENABLED StepOf(u)

\* after a call has ended with the package still uninitialized (a Get that
\* panicked, a TryGet or an InitGlobal that failed), a Get is on its panic
\* path with the read lock held and an InitGlobal waits for the lock
C34_Witness ==
    \E t, u \in Threads :
        /\ Completed >= 1
        /\ successCount = 0
        /\ replaceCalls = 0
        /\ pc[t] = "get_runlock"
        /\ frame[t].kind = "panic"
        /\ t \in mu.readers
        /\ pc[u] = "init_lock"
        /\ ~ENABLED InitLock(u)

\* where a goroutine is in the zap logger or about to enter it (a flush, an
\* emission), or waits for the flush of its goroutine
EnginePcs == {"psync_flush", "pkg_emit", "swt_select"}

\* where a goroutine holds the read lock in Sync or a package function
GlobalReadPcs == {"psync_read", "psync_runlock", "pkg_read", "pkg_runlock"}

\* the step of goroutine u that takes the lock
TakesLock(u) ==
    \/ InitLock(u)
    \/ ReplaceLock(u)
    \/ GetRLock(u)
    \/ TryGetRLock(u)

\* C35: a goroutine that is in a flush or in an emission, or waits for the
\* flush of SyncWithTimeout, holds the lock neither for reading nor for
\* writing: the lock is held only between the lock and the unlock around
\* the read or the write of the handle. So an InitGlobal, ReplaceGlobal, Get
\* or TryGet that waits for the lock takes it when no goroutine is between
\* those two points, however many are in the zap logger, and with the lock
\* it goes on to its end.
C35_NoLockInEngine ==
    /\ \A t \in Threads :
          pc[t] \in EnginePcs => t \notin mu.readers /\ mu.writer # t
    /\ mu.readers = {t \in Threads : pc[t] \in ReaderPcs \cup GlobalReadPcs}
    /\ \A t \in Threads : mu.writer = t <=> pc[t] \in WriterPcs
    /\ \A u \in Threads :
          pc[u] \in LockWaitPcs =>
             \/ ENABLED TakesLock(u)
             \/ \E v \in Threads \ {u} :
                   pc[v] \in WriterPcs \cup ReaderPcs \cup GlobalReadPcs
    /\ \A u \in Threads :
          pc[u] \in WriterPcs \cup ReaderPcs => ENABLED StepOf(u)

\* while one goroutine is in the flush of Sync, another has taken the lock
\* in ReplaceGlobal
C35_Witness ==
    \E t, u \in Threads :
        /\ pc[t] = "psync_flush"
        /\ frame[t].entry = "Sync"
        /\ pc[u] = "rep_store"
        /\ mu.writer = u
        /\ mu.readers = {}

\* goroutine u was started by a SyncWithTimeout and its Sync has returned
FlushTaskDone(u) == pc[u] = "psync_return" /\ frame[u].parent # 0

\* C36: the goroutine of a SyncWithTimeout whose Sync has returned can
\* always deliver the result, whether the call that started it still waits,
\* has taken the timeout or has returned, and nobody will receive; its next
\* step is that delivery and ends it.
C36_AbandonedFlushEnds ==
    [][\A u \in Threads :
          FlushTaskDone(u) =>
             /\ ENABLED SyncSend(u)
             /\ pc'[u] # pc[u] =>
                   /\ pc'[u] = "idle"
                   /\ frame'[u] = ZeroFrame
                   /\ \A t \in Threads \ {u} : pc'[t] = pc[t]
      ]_vars

\* the call has taken the timeout error and the flush of its goroutine has
\* returned after that
C36_Witness ==
    \E t, u \in Threads :
        /\ pc[t] = "swt_return"
        /\ frame[t].err = TimeoutError
        /\ ~frame[t].done.full
        /\ FlushTaskDone(u)
        /\ frame[u].parent = t
        /\ frame[u].callid = frame[t].callid
        /\ frame[u].flushed

\* C37: the store of ReplaceGlobal(h) changes the global handle only: the
\* logger behind every handle that exists stays what it was, and so do the
\* handles other goroutines hold from Get, TryGet or With and the handle an
\* emission or a With in flight has resolved. An emission and a With use
\* the handle they resolved, whatever the global handle has become since;
\* Get, TryGet and the package functions resolve the global handle as it is
\* when they read it.
C37_ReplaceDoesNotRetarget ==
    [][ /\ \A h \in 1..Len(heap) : h <= Len(heap') /\ heap'[h] = heap[h]
        /\ \A t \in Threads :
              /\ (pc[t] = "rep_store" /\ pc'[t] = "rep_unlock") =>
                     /\ globalLogger' = frame[t].arg
                     /\ \A u \in Threads \ {t} :
                           frame'[u] = frame[u] /\ pc'[u] = pc[u]
              /\ (pc[t] = "pkg_emit" /\ pc'[t] = "pkg_return") =>
                     frame'[t].emitted =
                        Emit(heap[frame[t].seen], frame[t].entry, frame[t].given)
              /\ (pc[t] = "with_run" /\ pc'[t] = "with_return") =>
                     heap'[frame'[t].val] =
                        WithFields(heap[frame[t].seen], frame[t].given)
              /\ (pc[t] \in {"get_read", "try_read", "pkg_read"}
                        /\ pc'[t] # pc[t]) =>
                     frame'[t].seen = globalLogger
      ]_vars

\* an Info that resolved the global handle before a ReplaceGlobal has
\* written its entry after it, with the fields of the logger that was
\* global before
C37_Witness ==
    \E t \in Threads :
        /\ pc[t] = "pkg_return"
        /\ frame[t].entry = "Info"
        /\ frame[t].seen # Nil
        /\ globalLogger # Nil
        /\ globalLogger # frame[t].seen
        /\ replaceCalls > 0
        /\ heap[globalLogger].fields # heap[frame[t].seen].fields
        /\ Len(frame[t].emitted) = 1
        /\ frame[t].emitted[1].fields =
               heap[frame[t].seen].fields \o frame[t].given

\* the three variables of the process environment are set and valid
ProcessVariablesValid ==
    /\ LevelVariant(Getenv(env, "LOG_LEVEL"))
    /\ EnvironmentVariant(Getenv(env, "APP_ENV"))
    /\ NonBlank(Getenv(env, "APP_NAME"))

\* what the file step returns for a .env file that cannot be loaded
FileError == [chain |-> << >>, text |-> <<"error loading .env file">>]

\* C38: when APP_ENV is not production and the .env file exists but cannot
\* be loaded, Load returns the error of the file step and the zero
\* configuration whatever LOG_LEVEL, APP_ENV and APP_NAME hold, valid
\* values included: the step that looks the three up is not reached and
\* the error is none of the errors that step reports. InitFromEnv returns
\* this error wrapped, does not go on to InitGlobal, and the global
\* handle, its logger and the process environment stay as they were.
C38_UnloadableFileFailsLoad ==
    [][\A t \in Threads :
          /\ (pc[t] = "env_load" /\ pc'[t] # pc[t] /\ FileStepFails)
             => /\ Load(env, dotenv).err = FileError
                /\ Load(env, dotenv).cfg = ZeroConfig
                /\ \A e \in LoadEnvironments :
                      ~CaseVariantOf(Getenv(e, "APP_ENV"), EnvProduction)
                         => Load(e, dotenv).err = Load(env, dotenv).err
                /\ pc'[t] = "env_return"
                /\ frame'[t].err = InitFromEnvError(FileError)
                /\ IsFileError(frame'[t].err)
                /\ ~ErrorsIs(frame'[t].err, ErrMissingRequiredEnvVar)
                /\ ~ErrorsIs(frame'[t].err, ErrInvalidLogLevel)
                /\ ~ErrorsIs(frame'[t].err, ErrInvalidEnvironment)
                /\ UNCHANGED <<globalLogger, heap, mu, env, successCount>>
          /\ (pc[t] = "env_return" /\ pc'[t] # pc[t])
             => UNCHANGED <<globalLogger, heap, mu, env, successCount>>
      ]_vars

\* InitFromEnv is about to return the error of the file step although the
\* three variables are valid in the process environment, and the logger
\* that InitWithDefaults made global before is still the global one
C38_Witness ==
    \E t \in Threads :
        /\ pc[t] = "env_return"
        /\ frame[t].entry = "InitFromEnv"
        /\ dotenv.state = "unreadable"
        /\ ProcessVariablesValid
        /\ ~CaseVariantOf(Getenv(env, "APP_ENV"), EnvProduction)
        /\ frame[t].err = InitFromEnvError(FileError)
        /\ globalLogger # Nil
        /\ globalLogger = lastInit

=============================================================================
